---- MODULE Spec2Model ----
(***************************************************************************)
(* Hospital management backend: the admission / room-occupancy subsystem   *)
(* and the billing / payment subsystem, as state machines over the tables  *)
(* the handlers read and write.                                            *)
(*                                                                         *)
(* Database model (mysql2 pool over InnoDB, src/unnamed/part_015:159-175): *)
(*  - the table variables hold the COMMITTED rows; a statement run on the  *)
(*    pool (autocommit) reads and writes them atomically;                  *)
(*  - a statement run on a transaction's connection keeps its effect in    *)
(*    the request record (position pc and locals) until commit; an UPDATE  *)
(*    takes the row's exclusive lock until commit or rollback, so another  *)
(*    writer of that row waits (the waiting is the guard of its action);   *)
(*  - every await of a handler that reads or writes a table is one step.   *)
(***************************************************************************)
EXTENDS Integers, FiniteSets, Sequences, TLC

\* ---------------------------------------------------------------- bounds
NConc == 2        \* concurrent request slots of the general specifications
NRace == 3        \* racing admit requests of SpecRace
MaxCap == 2       \* largest room capacity
MaxAdm == 2       \* rows of the Admissions table
MaxTime == 2      \* timestamps are 1..MaxTime
MaxBill == 2      \* rows of the Bills table
MaxPay == 3       \* rows of the Payments table
MaxAmount == 3    \* largest payment amount of a request
MaxTotal == 5     \* largest total_amount of a bill that payments are made on
MaxCost == 2      \* largest cost of a price-list entry
MaxTreat == 2     \* rows of the Treatments table
MaxStay == 3      \* longest stay of a billed admission, in half days

NULL == 0         \* SQL NULL of a timestamp or id column

Max2(x, y) == IF x >= y THEN x ELSE y

Reqs == 1..Max2(NConc, NRace)
Conc == 1..NConc
RoomIds == {1, 2}
Times == 1..MaxTime
AdmIds == 1..MaxAdm
\* Patients and doctors are rows of read-only lookup collaborators.
Racers == 1..NRace
Residents == (NRace + 1)..(NRace + MaxCap)
PatientIds == Racers \cup Residents
DoctorIds == {1}
MissingId == NRace + MaxCap + 1   \* an id no table holds
BillIds == 1..MaxBill
PayIds == 1..MaxPay
TreatIds == 1..MaxTreat
\* Services.service_name values of the price list, and Treatments.treatment_name
\* values (free text: "Massage" names no service).
RoomTypeOf(r) == IF r = 1 THEN "General" ELSE "Private"
RoomServiceName(r) == IF RoomTypeOf(r) = "General" THEN "General Daily Charge"
                      ELSE "Private Daily Charge"
ServiceNames == {"General Daily Charge", "X-Ray"}
TreatNames == {"X-Ray", "Massage"}

VARIABLES
    rooms,      \* Rooms table: room_id -> row
    adms,       \* Admissions table: admission_id -> row
    doctors,    \* Doctors.is_active: doctor_id -> BOOLEAN
    hist,       \* per admission: 200 responses and committed decrements
    bills,      \* Bills table: bill_id -> row
    items,      \* Bill_Items table: bill_id -> its rows in bill_item_id order
    payments,   \* Payments table: payment_id -> row
    services,   \* Services table: service_name -> row
    treats,     \* Treatments table: treatment_id -> row
    req,        \* request slot -> the handler's position and locals
    pre,        \* sequential specifications: the tables and the body when the
                \* request began
    rejected    \* sequential specifications: <<patient, room>> answered "room full"

vars == <<rooms, adms, doctors, hist, bills, items, payments, services, treats,
          req, pre, rejected>>
ledger == <<bills, items, payments, services, treats>>
wards == <<rooms, adms, doctors, hist>>
tables == <<wards, ledger>>

NoRoom == [exists |-> FALSE, capacity |-> 0, occ |-> 0, active |-> FALSE]
NoAdm == [st |-> "free", patient |-> 0, room |-> 0, doctor |-> 0,
          admitT |-> NULL, dischT |-> NULL]
NoBill == [st |-> "free", patient |-> 0, adm |-> NULL, total |-> 0, paid |-> 0,
           status |-> "none"]
NoPayment == [st |-> "free", bill |-> 0, amount |-> 0]
NoService == [exists |-> FALSE, cost |-> 0]
NoTreat == [patient |-> 0, name |-> "none"]
IdleReq == [pc |-> "idle", op |-> "none", p |-> 0, r |-> 0, d |-> 0, t |-> NULL,
            a |-> 0, dec |-> FALSE, st |-> 0, msg |-> "none",
            b |-> 0, amt |-> 0, method |-> "none", total |-> 0, snap |-> {},
            pay |-> 0, sum |-> 0, adm |-> NoAdm, found |-> <<>>, path |-> 0,
            tx |-> "none", conn |-> "none"]

Snapshot(in) == [rooms |-> rooms, adms |-> adms, doctors |-> doctors,
                 bills |-> bills, items |-> items, payments |-> payments, in |-> in]

NoSnapshot == [rooms |-> [r \in RoomIds |-> NoRoom],
               adms |-> [a \in AdmIds |-> NoAdm],
               doctors |-> [d \in DoctorIds |-> TRUE],
               bills |-> [b \in BillIds |-> NoBill],
               items |-> [b \in BillIds |-> <<>>],
               payments |-> [i \in PayIds |-> NoPayment], in |-> IdleReq]

\* ------------------------------------------------------------ row locks
\* q's transaction holds the exclusive lock of room r: after its occupancy
\* UPDATE and until commit.
HoldsRoom(q, r) ==
    /\ req[q].r = r
    /\ \/ req[q].op = "admit" /\ req[q].pc \in {"a_insert", "a_commit"}
       \/ req[q].op = "discharge" /\ req[q].pc = "d_commit"

RoomLockedByOther(q, r) == \E o \in Reqs \ {q} : HoldsRoom(o, r)
RoomLocked(r) == \E o \in Reqs : HoldsRoom(o, r)

\* q's transaction holds the lock of admission row a: after the discharge UPDATE.
HoldsAdm(q, a) ==
    /\ req[q].op = "discharge" /\ req[q].a = a
    /\ req[q].pc \in {"d_decr", "d_commit"}

AdmLockedByOther(q, a) == \E o \in Reqs \ {q} : HoldsAdm(o, a)

\* ------------------------------------------------------------- queries
Active(row) == row.st = "committed" /\ row.dischT = NULL

\* AdmissionModel.findCurrentByPatientId: a committed row with NULL discharge.
FindCurrentByPatientId(p) == {a \in AdmIds : Active(adms[a]) /\ adms[a].patient = p}

NoUniqueKey(p) == FALSE

\* The schema's unique key unique_active_admission, whose ER_DUP_ENTRY
\* AdmissionModel.create turns into "already actively admitted".
DupActiveAdmission(p) == FindCurrentByPatientId(p) # {}

\* An INSERT of an active row for p waits while another transaction holds an
\* uncommitted row of that key: an uncommitted insert, or a pending discharge.
InsertWaits(q, p) ==
    \/ \E a \in AdmIds : adms[a].st = "pending" /\ adms[a].patient = p
    \/ \E o \in Reqs \ {q}, a \in AdmIds : HoldsAdm(o, a) /\ adms[a].patient = p

IncrementUnconditional(room) == room.exists

\* WHERE room_id = ? AND current_occupancy < capacity
IncrementOccupancy(room) == room.exists /\ room.occ < room.capacity

\* WHERE room_id = ? AND current_occupancy > 0
DecrementWhenNotFull(room) == room.occ > 0 /\ room.occ < room.capacity

DecrementOccupancy(room) == room.exists /\ room.occ > 0

DischargeMatchesAnyRow(row) == row.st = "committed"

\* WHERE admission_id = ? AND discharge_datetime IS NULL
DischargeMatches(row) == row.st = "committed" /\ row.dischT = NULL

FreeAdmIds == {a \in AdmIds : adms[a].st = "free"}
NextAdmId == CHOOSE a \in FreeAdmIds : \A b \in FreeAdmIds : a <= b

InFlightAdmits == {q \in Reqs : req[q].op = "admit" /\ req[q].pc \in
                     {"a_room", "a_current", "a_incr", "a_insert"}}

\* The Admissions table of the model has a row left for one more admit request.
RowsLeft(q) ==
    Cardinality(AdmIds \ FreeAdmIds) + Cardinality(InFlightAdmits \ {q}) < MaxAdm

Quiet(q) == req[q].pc \in {"idle", "done"}

\* res.status(status).json({message}): the slot keeps the operation, its
\* subject, the status and which message it was.
Done(in, status, msg) ==
    [IdleReq EXCEPT !.pc = "done", !.op = in.op, !.st = status, !.msg = msg,
                    !.p = IF in.op \in {"admit", "bill"} THEN in.p ELSE 0,
                    !.r = IF in.op = "admit" THEN in.r ELSE 0,
                    !.a = IF in.op \in {"discharge", "bill"} THEN in.a ELSE 0,
                    !.b = IF in.op \in {"pay", "bill"} THEN in.b ELSE 0,
                    !.tx = in.tx, !.conn = in.conn]

Finish(q, status, msg) == req' = [req EXCEPT ![q] = Done(req[q], status, msg)]

\* The response of a handler whose locals are `in` when it returns.
Respond(q, in, status, msg) == req' = [req EXCEPT ![q] = Done(in, status, msg)]

\* pool.getConnection(); connection.beginTransaction()
Begun(in) == [in EXCEPT !.tx = "open", !.conn = "held"]
\* A statement sent on the handler's connection: after release() the
\* connection is the pool's, to hand to any other request.
Used(conn) == IF conn = "released" THEN "used_after_release" ELSE conn
\* connection.rollback() and connection.commit(): they end an open transaction.
Rollback(in) == [in EXCEPT !.tx = IF @ = "open" THEN "rolled_back" ELSE @,
                           !.conn = Used(@)]
Commit(in) == [in EXCEPT !.tx = IF @ = "open" THEN "committed" ELSE @,
                         !.conn = Used(@)]
\* connection.release()
Release(in) ==
    [in EXCEPT !.conn = IF @ = "held" THEN "released"
                        ELSE IF @ = "released" THEN "released_twice"
                        ELSE IF @ = "used_after_release" THEN "used_and_released_twice"
                        ELSE @]

\* ------------------------------------------------------- admitPatient
\* req.body of POST /admission and of PUT /admission/:admissionId/discharge.
\* A transaction still open when its handler has returned: the connection
\* goes back to the pool with the writes in place, and its next START
\* TRANSACTION commits them.
Leaked(out) == out.tx = "open"

AdmitCatchKeepsConnection(in) == Rollback(in)
AdmitCatchWithoutRollback(in) == Release(in)

\* admitPatient's catch (rollback) and finally (release).
AdmitCatch(in) == Release(Rollback(in))

DischargeAbortKeepsConnection(in) == Rollback(in)

\* dischargePatient's !success branch (rollback) and finally (release).
DischargeAbort(in) == Release(Rollback(in))

AdmitBody(p, r, d, t) ==
    [IdleReq EXCEPT !.op = "admit", !.p = p, !.r = r, !.d = d, !.t = t]
DischargeBody(a, t) == [IdleReq EXCEPT !.op = "discharge", !.a = a, !.t = t]

Ok == [st |-> 0, msg |-> "none"]
Fail(status, msg) == [st |-> status, msg |-> msg]

\* Lines 27-32: the patient and doctor look-ups.
AdmitRefCheck(p, d, docs) ==
    IF p \notin PatientIds THEN Fail(404, "patient_not_found")
    ELSE IF d \notin DoctorIds THEN Fail(404, "doctor_not_found")
    ELSE IF ~docs[d] THEN Fail(400, "doctor_inactive")
    ELSE Ok

RoomCheckOffByOne(r, rms) ==
    IF r \notin RoomIds \/ ~rms[r].exists THEN Fail(404, "room_not_found")
    ELSE IF ~rms[r].active THEN Fail(400, "room_inactive")
    ELSE IF rms[r].occ + 1 >= rms[r].capacity THEN Fail(409, "room_full")
    ELSE Ok

RoomCheckIgnoresActive(r, rms) ==
    IF r \notin RoomIds \/ ~rms[r].exists THEN Fail(404, "room_not_found")
    ELSE IF rms[r].occ >= rms[r].capacity THEN Fail(409, "room_full")
    ELSE Ok

\* Lines 34-41: RoomModel.findById and the availability pre-check.
AdmitRoomCheck(r, rms) ==
    IF r \notin RoomIds \/ ~rms[r].exists THEN Fail(404, "room_not_found")
    ELSE IF ~rms[r].active THEN Fail(400, "room_inactive")
    ELSE IF rms[r].occ >= rms[r].capacity THEN Fail(409, "room_full")
    ELSE Ok

AdmitStart(q, p, r, d, t) ==
    /\ Quiet(q)
    /\ LET in == AdmitBody(p, r, d, t)
           chk == AdmitRefCheck(p, d, doctors)
       IN req' = [req EXCEPT ![q] =
                    IF chk = Ok THEN [in EXCEPT !.pc = "a_room"]
                    ELSE Done(in, chk.st, chk.msg)]
    /\ UNCHANGED tables

AdmitCheckRoom(q) ==
    /\ req[q].op = "admit" /\ req[q].pc = "a_room"
    /\ LET chk == AdmitRoomCheck(req[q].r, rooms) IN
       IF chk = Ok THEN req' = [req EXCEPT ![q].pc = "a_current"]
       ELSE Finish(q, chk.st, chk.msg)
    /\ UNCHANGED tables

\* Lines 43-47: the active-admission pre-check.
AdmitCheckCurrent(q) ==
    /\ req[q].op = "admit" /\ req[q].pc = "a_current"
    /\ IF FindCurrentByPatientId(req[q].p) # {}
       THEN Finish(q, 409, "already_admitted")
       ELSE req' = [req EXCEPT ![q].pc = "a_incr"]
    /\ UNCHANGED tables

\* Lines 50-55 and AdmissionModel.create 16-20: begin, then the conditional
\* occupancy UPDATE; a failed increment throws, the catch rolls back, 409.
AdmitIncrement(q) ==
    /\ req[q].op = "admit" /\ req[q].pc = "a_incr"
    /\ ~RoomLockedByOther(q, req[q].r)
    /\ IF IncrementOccupancy(rooms[req[q].r])
       THEN req' = [req EXCEPT ![q] = [Begun(@) EXCEPT !.pc = "a_insert"]]
       ELSE Respond(q, AdmitCatch(Begun(req[q])), 409, "full_capacity")
    /\ UNCHANGED tables

\* AdmissionModel.create 23-45: the INSERT; a duplicate active row throws,
\* the catch rolls the increment back, 409.
AdmitInsert(q) ==
    /\ req[q].op = "admit" /\ req[q].pc = "a_insert"
    /\ ~InsertWaits(q, req[q].p)
    /\ IF DupActiveAdmission(req[q].p)
       THEN LET out == AdmitCatch(req[q]) IN
            /\ Respond(q, out, 409, "dup_active")
            /\ adms' = adms
            /\ rooms' = IF Leaked(out) THEN [rooms EXCEPT ![req[q].r].occ = @ + 1]
                        ELSE rooms
       ELSE /\ FreeAdmIds # {}
            /\ adms' = [adms EXCEPT ![NextAdmId] =
                          [st |-> "pending", patient |-> req[q].p, room |-> req[q].r,
                           doctor |-> req[q].d, admitT |-> req[q].t, dischT |-> NULL]]
            /\ req' = [req EXCEPT ![q].pc = "a_commit", ![q].a = NextAdmId]
            /\ rooms' = rooms
    /\ UNCHANGED <<doctors, hist, ledger>>

\* AdmissionModel.create 30-45: the INSERT throws another database error;
\* the controller's catch rolls the increment back, 500.
AdmitInsertFails(q) ==
    /\ req[q].op = "admit" /\ req[q].pc = "a_insert"
    /\ LET out == AdmitCatch(req[q]) IN
       /\ Respond(q, out, 500, "db_error")
       /\ rooms' = IF Leaked(out) THEN [rooms EXCEPT ![req[q].r].occ = @ + 1]
                   ELSE rooms
    /\ UNCHANGED <<adms, doctors, hist, ledger>>

\* Lines 57-59: commit makes the increment and the row visible; 201.
AdmitCommit(q) ==
    /\ req[q].op = "admit" /\ req[q].pc = "a_commit"
    /\ rooms' = [rooms EXCEPT ![req[q].r].occ = @ + 1]
    /\ adms' = [adms EXCEPT ![req[q].a].st = "committed"]
    /\ Respond(q, Release(Commit(req[q])), 201, "ok")
    /\ UNCHANGED <<doctors, hist, ledger>>

\* ---------------------------------------------------- dischargePatient
DischargeCheckAnyTime(a, t, rows) ==
    IF a \notin AdmIds \/ rows[a].st # "committed" THEN Fail(404, "not_found")
    ELSE IF rows[a].dischT # NULL THEN Fail(400, "already_discharged")
    ELSE Ok

\* Lines 94-104: AdmissionModel.findById and the pre-checks.
DischargeCheck(a, t, rows) ==
    IF a \notin AdmIds \/ rows[a].st # "committed" THEN Fail(404, "not_found")
    ELSE IF rows[a].dischT # NULL THEN Fail(400, "already_discharged")
    ELSE IF t < rows[a].admitT THEN Fail(400, "before_admission")
    ELSE Ok

DischargeStart(q, a, t) ==
    /\ Quiet(q)
    /\ LET in == DischargeBody(a, t)
           chk == DischargeCheck(a, t, adms)
       IN req' = [req EXCEPT ![q] =
                    IF chk = Ok
                    THEN [in EXCEPT !.pc = "d_update", !.r = adms[a].room]
                    ELSE Done(in, chk.st, chk.msg)]
    /\ UNCHANGED tables

\* Lines 108-118 and AdmissionModel.discharge 140-144: begin, then the
\* conditional UPDATE; zero rows: rollback, 404.
DischargeUpdate(q) ==
    /\ req[q].op = "discharge" /\ req[q].pc = "d_update"
    /\ ~AdmLockedByOther(q, req[q].a)
    /\ IF DischargeMatches(adms[req[q].a])
       THEN req' = [req EXCEPT ![q] = [Begun(@) EXCEPT !.pc = "d_decr"]]
       ELSE Respond(q, DischargeAbort(Begun(req[q])), 404, "gone_during_update")
    /\ UNCHANGED tables

\* AdmissionModel.discharge 146-153: the decrement; its failure is only logged.
DischargeDecrement(q) ==
    /\ req[q].op = "discharge" /\ req[q].pc = "d_decr"
    /\ ~RoomLockedByOther(q, req[q].r)
    /\ req' = [req EXCEPT ![q].pc = "d_commit",
                          ![q].dec = DecrementOccupancy(rooms[req[q].r])]
    /\ UNCHANGED tables

\* Lines 120-123: commit, 200.
DischargeCommit(q) ==
    /\ req[q].op = "discharge" /\ req[q].pc = "d_commit"
    /\ adms' = [adms EXCEPT ![req[q].a].dischT = req[q].t]
    /\ rooms' = [rooms EXCEPT ![req[q].r].occ = IF req[q].dec THEN @ - 1 ELSE @]
    /\ hist' = [hist EXCEPT ![req[q].a].ok = @ + 1,
                            ![req[q].a].dec = IF req[q].dec THEN @ + 1 ELSE @]
    /\ Respond(q, Release(Commit(req[q])), 200, "ok")
    /\ UNCHANGED <<doctors, ledger>>

\* Lines 120-131: the UPDATEs are committed, then AdmissionModel.findById
\* throws; the catch rolls back an ended transaction, 500, and the finally
\* releases.
DischargeRereadFails(q) ==
    /\ req[q].op = "discharge" /\ req[q].pc = "d_commit"
    /\ adms' = [adms EXCEPT ![req[q].a].dischT = req[q].t]
    /\ rooms' = [rooms EXCEPT ![req[q].r].occ = IF req[q].dec THEN @ - 1 ELSE @]
    /\ hist' = [hist EXCEPT ![req[q].a].ok = @ + 1,
                            ![req[q].a].dec = IF req[q].dec THEN @ + 1 ELSE @]
    /\ Respond(q, Release(Rollback(Commit(req[q]))), 500, "reread_failed")
    /\ UNCHANGED <<doctors, ledger>>

\* --------------------------------------------------------- room CRUD
\* RoomController.createRoom: capacity >= 1 is validated; occupancy 0, active.
CreateRoom(r, cap) ==
    /\ ~rooms[r].exists
    /\ cap >= 1
    /\ rooms' = [rooms EXCEPT ![r] =
                   [exists |-> TRUE, capacity |-> cap, occ |-> 0, active |-> TRUE]]
    /\ UNCHANGED <<adms, doctors, hist, ledger, req>>

\* RoomModel.update: only the fields present in dataToUpdate are written.
RoomUpdate(room, data) ==
    [room EXCEPT
       !.capacity = IF "capacity" \in DOMAIN data THEN data.capacity ELSE @,
       !.active = IF "is_active" \in DOMAIN data THEN data.is_active ELSE @]

\* RoomController.updateRoom: the body is written as given.
UpdateRoom(r, data) ==
    /\ rooms[r].exists
    /\ ~RoomLocked(r)
    /\ rooms' = [rooms EXCEPT ![r] = RoomUpdate(@, data)]
    /\ UNCHANGED <<adms, doctors, hist, ledger, req>>

\* RoomController.deleteRoom: refused while occupied; the DELETE fails while
\* an admission row references the room.
DeleteRoom(r) ==
    /\ rooms[r].exists
    /\ ~RoomLocked(r)
    /\ rooms[r].occ = 0
    /\ \A a \in AdmIds : adms[a].st = "free" \/ adms[a].room # r
    /\ rooms' = [rooms EXCEPT ![r] = NoRoom]
    /\ UNCHANGED <<adms, doctors, hist, ledger, req>>

\* An admission row inserted and not yet committed holds a shared lock on
\* the doctor row it references.
DoctorLocked(d) ==
    \E q \in Reqs : req[q].op = "admit" /\ req[q].pc = "a_commit" /\ req[q].d = d

\* DoctorController.updateDoctor with is_active in the body.
UpdateDoctor(d, act) ==
    /\ ~DoctorLocked(d)
    /\ doctors' = [doctors EXCEPT ![d] = act]
    /\ UNCHANGED <<rooms, adms, hist, ledger, req>>

CapacityUpdates == {[capacity |-> c] : c \in 1..MaxCap}
ActiveUpdates == {[is_active |-> b] : b \in BOOLEAN}

\* ------------------------------------------------------- recordPayment
\* Transactions read at InnoDB's default isolation (the pool sets none): the
\* plain SELECTs of a transaction see the rows committed when it made its
\* first read, plus its own writes.  An INSERT into Payments takes a shared
\* lock on the referenced bill row, the UPDATE of the bill an exclusive one.
AllowedMethods ==
    {"Cash", "E-Banking", "Credit Card", "Debit Card", "Insurance", "Other"}
Settled == {"Paid", "Cancelled"}

PayAbortKeepsConnection(in) == Rollback(in)
PayAbortWithoutRollback(in) == Release(in)

\* recordPayment's client-error branches and its catch: rollback, release.
PayAbort(in) == Release(Rollback(in))

PayBody(b, amt, method) ==
    [IdleReq EXCEPT !.op = "pay", !.b = b, !.amt = amt, !.method = method]

\* POST /bill/:billId/payments with its body: the route's billId and the
\* body's fields; the handler reads the body only.
PayRequest(path, b, amt, method) == [PayBody(b, amt, method) EXCEPT !.path = path]

\* Lines 14-27: the body validation (b = NULL: no bill_id in the body).
PayValidate(b, amt, method) ==
    IF b = NULL THEN Fail(400, "fields_required")
    ELSE IF amt <= 0 THEN Fail(400, "bad_amount")
    ELSE IF method \notin AllowedMethods THEN Fail(400, "bad_method")
    ELSE Ok

\* Lines 35-45: BillModel.findById and the settled check.
PayBillCheck(b, rows) ==
    IF b \notin BillIds \/ rows[b].st # "committed" THEN Fail(404, "bill_not_found")
    ELSE IF rows[b].status \in Settled THEN Fail(400, "already_settled")
    ELSE Ok

OverpaymentRejected(amt, bill) ==
    IF amt > bill.total - bill.paid THEN Fail(400, "exceeds_balance") ELSE Ok

\* Lines 46-52: an amount above the remaining balance is only logged.
OverpaymentCheck(amt, bill) == Ok

CommittedPayments == {i \in PayIds : payments[i].st = "committed"}
FreePayIds == {i \in PayIds : payments[i].st = "free"}
NextPayId == CHOOSE i \in FreePayIds : \A j \in FreePayIds : i <= j

PaysBeforeInsert == {q \in Reqs : req[q].op = "pay" /\ req[q].pc = "p_insert"}

\* The Payments table of the model has a row left for one more request.
PayRowsLeft(q) ==
    Cardinality(PayIds \ FreePayIds) + Cardinality(PaysBeforeInsert \ {q}) < MaxPay

HoldsBillShared(q, b) ==
    /\ req[q].op = "pay" /\ req[q].b = b
    /\ req[q].pc \in {"p_sum", "p_update", "p_commit"}

HoldsBillExclusive(q, b) ==
    req[q].op = "pay" /\ req[q].b = b /\ req[q].pc = "p_commit"

RECURSIVE SumAmounts(_, _)
SumAmounts(rows, ids) ==
    IF ids = {} THEN 0
    ELSE LET i == CHOOSE j \in ids : TRUE
         IN rows[i].amount + SumAmounts(rows, ids \ {i})

\* SELECT SUM(amount) FROM Payments WHERE bill_id = ?, over the rows in view.
GetTotalPaidForBill(b, view) ==
    SumAmounts(payments, {i \in view : payments[i].bill = b})

PaymentStatusStrict(newTotalPaid, total) ==
    IF newTotalPaid > total THEN "Paid"
    ELSE IF newTotalPaid <= 0 /\ total > 0 THEN "Pending"
    ELSE "Partially Paid"

\* Lines 61-66.
PaymentStatus(newTotalPaid, total) ==
    IF newTotalPaid >= total THEN "Paid"
    ELSE IF newTotalPaid <= 0 /\ total > 0 THEN "Pending"
    ELSE "Partially Paid"

\* Lines 10-52: validation, begin, the transaction's first read.
PayStart(q, b, amt, method) ==
    /\ Quiet(q)
    /\ LET in == PayBody(b, amt, method)
           v == PayValidate(b, amt, method)
           w == IF v = Ok THEN PayBillCheck(b, bills) ELSE v
           chk == IF w = Ok THEN OverpaymentCheck(amt, bills[b]) ELSE w
       IN req' = [req EXCEPT ![q] =
                    IF chk = Ok
                    THEN [Begun(in) EXCEPT !.pc = "p_insert",
                                           !.total = bills[b].total,
                                           !.snap = CommittedPayments]
                    ELSE IF v = Ok THEN Done(PayAbort(Begun(in)), chk.st, chk.msg)
                    ELSE Done(in, chk.st, chk.msg)]
    /\ UNCHANGED tables

\* Line 57, PaymentModel.create: the INSERT waits for an exclusive lock on
\* the bill row to go.
PayInsert(q) ==
    /\ req[q].op = "pay" /\ req[q].pc = "p_insert"
    /\ \A o \in Reqs \ {q} : ~HoldsBillExclusive(o, req[q].b)
    /\ FreePayIds # {}
    /\ payments' = [payments EXCEPT ![NextPayId] =
                      [st |-> "pending", bill |-> req[q].b, amount |-> req[q].amt]]
    /\ req' = [req EXCEPT ![q].pc = "p_sum", ![q].pay = NextPayId]
    /\ UNCHANGED <<wards, bills, items, services, treats>>

\* Line 60: the sum over the rows the transaction sees.
PaySum(q) ==
    /\ req[q].op = "pay" /\ req[q].pc = "p_sum"
    /\ req' = [req EXCEPT ![q].pc = "p_update",
                 ![q].sum = GetTotalPaidForBill(req[q].b, req[q].snap \cup {req[q].pay})]
    /\ UNCHANGED tables

\* Lines 69-73, BillModel.updateAmountsAndStatus: the UPDATE waits until no
\* other transaction holds a lock on the bill row.
PayUpdate(q) ==
    /\ req[q].op = "pay" /\ req[q].pc = "p_update"
    /\ \A o \in Reqs \ {q} : ~HoldsBillShared(o, req[q].b)
    /\ req' = [req EXCEPT ![q].pc = "p_commit"]
    /\ UNCHANGED tables

\* Two transactions hold the shared lock and both ask for the exclusive one:
\* InnoDB rolls one back; lines 85-94: rollback, 500.
PayDeadlock(q) ==
    /\ req[q].op = "pay" /\ req[q].pc = "p_update"
    /\ \E o \in Reqs \ {q} :
          req[o].op = "pay" /\ req[o].b = req[q].b /\ req[o].pc = "p_update"
    /\ payments' = [payments EXCEPT ![req[q].pay] = NoPayment]
    /\ Respond(q, PayAbort(req[q]), 500, "deadlock")
    /\ UNCHANGED <<wards, bills, items, services, treats>>

\* The payment row that q's transaction inserted, when the transaction ends
\* as `out` without a commit.
PayUndo(q, out) ==
    payments' = [payments EXCEPT ![req[q].pay] =
                   IF Leaked(out) THEN [@ EXCEPT !.st = "committed"] ELSE NoPayment]

\* Lines 85-94: a statement of the transaction throws a database error; the
\* catch rolls back and releases, 500.
PayInsertFails(q) ==
    /\ req[q].op = "pay" /\ req[q].pc = "p_insert"
    /\ Respond(q, PayAbort(req[q]), 500, "insert_failed")
    /\ UNCHANGED tables

PaySumFails(q) ==
    /\ req[q].op = "pay" /\ req[q].pc = "p_sum"
    /\ LET out == PayAbort(req[q]) IN
       Respond(q, out, 500, "sum_failed") /\ PayUndo(q, out)
    /\ UNCHANGED <<wards, bills, items, services, treats>>

PayUpdateFails(q) ==
    /\ req[q].op = "pay" /\ req[q].pc = "p_update"
    /\ LET out == PayAbort(req[q]) IN
       Respond(q, out, 500, "update_failed") /\ PayUndo(q, out)
    /\ UNCHANGED <<wards, bills, items, services, treats>>

\* Lines 75-83: commit, 201.
PayCommit(q) ==
    /\ req[q].op = "pay" /\ req[q].pc = "p_commit"
    /\ payments' = [payments EXCEPT ![req[q].pay].st = "committed"]
    /\ bills' = [bills EXCEPT
                   ![req[q].b].paid = req[q].sum,
                   ![req[q].b].status = PaymentStatus(req[q].sum, req[q].total)]
    /\ Respond(q, Release(Commit(req[q])), 201, "ok")
    /\ UNCHANGED <<wards, items, services, treats>>

\* Lines 75-95: commit and release, then BillModel.findById throws; the catch
\* calls rollback and release on the released connection, 500.
PayRereadFails(q) ==
    /\ req[q].op = "pay" /\ req[q].pc = "p_commit"
    /\ payments' = [payments EXCEPT ![req[q].pay].st = "committed"]
    /\ bills' = [bills EXCEPT
                   ![req[q].b].paid = req[q].sum,
                   ![req[q].b].status = PaymentStatus(req[q].sum, req[q].total)]
    /\ Respond(q, PayAbort(Release(Commit(req[q]))), 500, "reread_failed")
    /\ UNCHANGED <<wards, items, services, treats>>

\* -------------------------------------------------------- generateBill
DayLen == 2       \* time units in a day

BillAbortKeepsConnection(in) == Rollback(in)
BillAbortWithoutRollback(in) == Release(in)

\* generateBill's client-error branches and its catch: rollback, release.
BillAbort(in) == Release(Rollback(in))

BillBody(p, a) == [IdleReq EXCEPT !.op = "bill", !.p = p, !.a = a]

BillRefCheckAnyPatient(p, a, rows) ==
    IF p = NULL THEN Fail(400, "fields_required")
    ELSE IF p \notin PatientIds THEN Fail(404, "patient_not_found")
    ELSE IF a = NULL THEN Ok
    ELSE IF a \notin AdmIds \/ rows[a].st # "committed"
         THEN Fail(404, "admission_not_found")
    ELSE Ok

\* Lines 144-179: the body validation, the patient and the admission look-ups
\* (a = NULL: no admission_id in the body).
BillRefCheck(p, a, rows) ==
    IF p = NULL THEN Fail(400, "fields_required")
    ELSE IF p \notin PatientIds THEN Fail(404, "patient_not_found")
    ELSE IF a = NULL THEN Ok
    ELSE IF a \notin AdmIds \/ rows[a].st # "committed"
         THEN Fail(404, "admission_not_found")
    ELSE IF rows[a].patient # p THEN Fail(400, "admission_of_other_patient")
    ELSE Ok

\* Math.ceil(x / n)
Ceil(x, n) == -((-x) \div n)

DaysStayedNoMinimum(admitT, dischT) == Ceil(dischT - admitT, DayLen)

\* Lines 194-196.
DaysStayed(admitT, dischT) ==
    LET days == Ceil(dischT - admitT, DayLen) IN IF days = 0 THEN 1 ELSE days

\* ServiceModel.findByName
FindByName(name) ==
    IF name \in ServiceNames /\ services[name].exists THEN services[name]
    ELSE NoService

Priced(name) == FindByName(name).exists /\ FindByName(name).cost > 0

RoomItemsOfAnyAdmission(adm) ==
    IF adm.st = "committed" /\ Priced(RoomServiceName(adm.room))
    THEN LET days == DaysStayed(adm.admitT, adm.dischT)
             cost == FindByName(RoomServiceName(adm.room)).cost
         IN <<[service |-> RoomServiceName(adm.room), treatment |-> 0,
               qty |-> days, unit |-> cost, total |-> days * cost]>>
    ELSE <<>>

\* Lines 186-208: the room charge of a discharged admission.
RoomItems(adm) ==
    IF adm.st = "committed" /\ adm.dischT # NULL /\ Priced(RoomServiceName(adm.room))
    THEN LET days == DaysStayed(adm.admitT, adm.dischT)
             cost == FindByName(RoomServiceName(adm.room)).cost
         IN <<[service |-> RoomServiceName(adm.room), treatment |-> 0,
               qty |-> days, unit |-> cost, total |-> days * cost]>>
    ELSE <<>>

RECURSIVE TreatmentItemsAtAnyCost(_, _)
TreatmentItemsAtAnyCost(p, t) ==
    IF t > MaxTreat THEN <<>>
    ELSE (IF treats[t].patient = p /\ FindByName(treats[t].name).exists
          THEN <<[service |-> treats[t].name, treatment |-> t, qty |-> 1,
                  unit |-> FindByName(treats[t].name).cost,
                  total |-> FindByName(treats[t].name).cost]>>
          ELSE <<>>) \o TreatmentItemsAtAnyCost(p, t + 1)

\* Lines 213-232: one item per treatment of the patient with a priced service.
RECURSIVE TreatmentItems(_, _)
TreatmentItems(p, t) ==
    IF t > MaxTreat THEN <<>>
    ELSE (IF treats[t].patient = p /\ Priced(treats[t].name)
          THEN <<[service |-> treats[t].name, treatment |-> t, qty |-> 1,
                  unit |-> FindByName(treats[t].name).cost,
                  total |-> FindByName(treats[t].name).cost]>>
          ELSE <<>>) \o TreatmentItems(p, t + 1)

BillItemsData(p, adm) == RoomItems(adm) \o TreatmentItems(p, 1)

\* The sum of item_total_price over a list of bill items.
RECURSIVE SumTotals(_)
SumTotals(found) ==
    IF found = <<>> THEN 0 ELSE Head(found).total + SumTotals(Tail(found))

\* The pool options set no decimalNumbers, so the driver hands a DECIMAL column
\* to the code as a string: a cost of c arrives as "c.00".
Digit == <<"0", "1", "2", "3", "4", "5", "6", "7", "8", "9">>

\* String(n) of a non-negative integer.
RECURSIVE NumberToString(_)
NumberToString(n) ==
    IF n < 10 THEN <<Digit[n + 1]>>
    ELSE NumberToString(n \div 10) \o <<Digit[(n % 10) + 1]>>

DecimalToString(c) == NumberToString(c) \o <<".", "0", "0">>

\* A JavaScript value that is a number or a string.
JsNumber(n) == [isNum |-> TRUE, n |-> n, s |-> <<>>]
JsString(s) == [isNum |-> FALSE, n |-> 0, s |-> s]
JsToString(v) == IF v.isNum THEN NumberToString(v.n) ELSE v.s

\* JavaScript's +: the sum of two numbers, the concatenation as soon as one
\* operand is a string.
JsPlus(v, w) ==
    IF v.isNum /\ w.isNum THEN JsNumber(v.n + w.n)
    ELSE JsString(JsToString(v) \o JsToString(w))

\* What an item adds to calculatedTotalAmount: daysStayed * cost, a number
\* (line 206), for the room charge; the cost as read, a string (line 227), for
\* a treatment.
Charge(item) ==
    IF item.treatment = NULL THEN JsNumber(item.qty * item.unit)
    ELSE JsString(DecimalToString(item.unit))

\* Lines 183, 206, 227: calculatedTotalAmount, from acc over the items in order.
RECURSIVE CalculatedTotalAmount(_, _)
CalculatedTotalAmount(acc, found) ==
    IF found = <<>> THEN acc
    ELSE CalculatedTotalAmount(JsPlus(acc, Charge(Head(found))), Tail(found))

\* The server's reading of a parameter bound to a DECIMAL column: digits, at
\* most one point, digits; any other string is an incorrect decimal value and
\* the INSERT fails (strict SQL mode, the server's default).
Dots(s) == Cardinality({i \in 1..Len(s) : s[i] = "."})
ValidDecimal(v) == v.isNum \/ Dots(v.s) <= 1

CharValue(c) == CHOOSE d \in 0..9 : Digit[d + 1] = c

RECURSIVE DigitsValue(_)
DigitsValue(s) ==
    IF s = <<>> THEN 0
    ELSE DigitsValue(SubSeq(s, 1, Len(s) - 1)) * 10 + CharValue(s[Len(s)])

IntegerPart(s) ==
    IF Dots(s) = 0 THEN s
    ELSE SubSeq(s, 1, (CHOOSE i \in 1..Len(s) :
                          s[i] = "." /\ \A j \in 1..(i - 1) : s[j] # ".") - 1)

\* The stored value; the costs of the model have no fraction.
DecimalValue(v) == IF v.isNum THEN v.n ELSE DigitsValue(IntegerPart(v.s))

NoItemsNever(found) == FALSE

NothingNewToBill(found) ==
    \A i \in 1..Len(found) :
        \E b \in BillIds : \E j \in 1..Len(items[b]) :
            bills[b].st = "committed" /\ items[b][j].treatment = found[i].treatment

\* Line 236: billItemsData.length === 0
NoItems(found) == Len(found) = 0

FreeBillIds == {b \in BillIds : bills[b].st = "free"}
NextBillId == CHOOSE b \in FreeBillIds : \A c \in FreeBillIds : b <= c

BillsBeforeInsert ==
    {q \in Reqs : req[q].op = "bill" /\ req[q].pc \in {"g_collect", "g_bill"}}

\* The Bills table of the model has a row left for one more request.
BillRowsLeft(q) ==
    Cardinality(BillIds \ FreeBillIds) + Cardinality(BillsBeforeInsert \ {q}) < MaxBill

\* Lines 140-179.
BillStart(q, p, a) ==
    /\ Quiet(q)
    /\ LET in == BillBody(p, a)
           chk == BillRefCheck(p, a, adms)
       IN req' = [req EXCEPT ![q] =
                    IF chk = Ok
                    THEN [Begun(in) EXCEPT !.pc = "g_collect",
                                           !.adm = IF a = NULL THEN NoAdm ELSE adms[a]]
                    ELSE IF p # NULL THEN Done(BillAbort(Begun(in)), chk.st, chk.msg)
                    ELSE Done(in, chk.st, chk.msg)]
    /\ UNCHANGED tables

\* Lines 181-240: gather the items; none: rollback, 400.
BillCollect(q) ==
    /\ req[q].op = "bill" /\ req[q].pc = "g_collect"
    /\ LET found == BillItemsData(req[q].p, req[q].adm) IN
       IF NoItems(found) THEN Respond(q, BillAbort(req[q]), 400, "no_items")
       ELSE req' = [req EXCEPT ![q].pc = "g_bill", ![q].found = found]
    /\ UNCHANGED tables

\* Lines 243-251, BillModel.create: the INSERT references the admission row
\* and waits for a discharge that has it locked; a total_amount that is no
\* decimal makes it throw (lines 263-270: rollback, release, 500).
BillCreate(q) ==
    /\ req[q].op = "bill" /\ req[q].pc = "g_bill"
    /\ req[q].a # NULL => ~AdmLockedByOther(q, req[q].a)
    /\ FreeBillIds # {}
    /\ LET amount == CalculatedTotalAmount(JsNumber(0), req[q].found) IN
       IF ValidDecimal(amount)
       THEN /\ bills' = [bills EXCEPT ![NextBillId] =
                           [st |-> "pending", patient |-> req[q].p, adm |-> req[q].a,
                            total |-> DecimalValue(amount), paid |-> 0,
                            status |-> "Pending"]]
            /\ req' = [req EXCEPT
                         ![q].b = NextBillId,
                         ![q].pc = IF req[q].found = <<>> THEN "g_commit" ELSE "g_item"]
       ELSE /\ Respond(q, BillAbort(req[q]), 500, "bill_failed")
            /\ bills' = bills
    /\ UNCHANGED <<wards, items, payments, services, treats>>

\* Lines 253-255, BillItemModel.create: one INSERT per item.
BillItemCreate(q) ==
    /\ req[q].op = "bill" /\ req[q].pc = "g_item"
    /\ LET b == req[q].b
           n == Len(items[b]) + 1
       IN /\ items' = [items EXCEPT ![b] = Append(@, req[q].found[n])]
          /\ req' = [req EXCEPT ![q].pc =
                       IF n = Len(req[q].found) THEN "g_commit" ELSE "g_item"]
    /\ UNCHANGED <<wards, bills, payments, services, treats>>

\* Lines 263-270: BillModel.create throws; rollback, release, 500.
BillCreateFails(q) ==
    /\ req[q].op = "bill" /\ req[q].pc = "g_bill"
    /\ Respond(q, BillAbort(req[q]), 500, "bill_failed")
    /\ UNCHANGED tables

\* Lines 263-270: a BillItemModel.create throws after the bill row and some
\* items were inserted; rollback, release, 500.
BillItemCreateFails(q) ==
    /\ req[q].op = "bill" /\ req[q].pc = "g_item"
    /\ LET out == BillAbort(req[q])
           b == req[q].b
       IN /\ Respond(q, out, 500, "item_failed")
          /\ bills' = [bills EXCEPT ![b] =
                         IF Leaked(out) THEN [@ EXCEPT !.st = "committed"] ELSE NoBill]
          /\ items' = IF Leaked(out) THEN items ELSE [items EXCEPT ![b] = <<>>]
    /\ UNCHANGED <<wards, payments, services, treats>>

\* Lines 257-261: commit, 201.
BillCommit(q) ==
    /\ req[q].op = "bill" /\ req[q].pc = "g_commit"
    /\ bills' = [bills EXCEPT ![req[q].b].st = "committed"]
    /\ Respond(q, Release(Commit(req[q])), 201, "ok")
    /\ UNCHANGED <<wards, items, payments, services, treats>>

\* Lines 257-270: commit and release, then BillModel.findById throws; the
\* catch calls rollback and release on the released connection, 500.
BillRereadFails(q) ==
    /\ req[q].op = "bill" /\ req[q].pc = "g_commit"
    /\ bills' = [bills EXCEPT ![req[q].b].st = "committed"]
    /\ Respond(q, BillAbort(Release(Commit(req[q]))), 500, "reread_failed")
    /\ UNCHANGED <<wards, items, payments, services, treats>>

\* ------------------------------------------------------ specifications
NoLedger ==
    /\ bills = [b \in BillIds |-> NoBill]
    /\ items = [b \in BillIds |-> <<>>]
    /\ payments = [i \in PayIds |-> NoPayment]
    /\ services = [n \in ServiceNames |-> NoService]
    /\ treats = [t \in TreatIds |-> NoTreat]

NoRequest ==
    /\ req = [q \in Reqs |-> IdleReq]
    /\ pre = NoSnapshot
    /\ rejected = {}

EmptyDb ==
    /\ rooms = [r \in RoomIds |-> NoRoom]
    /\ adms = [a \in AdmIds |-> NoAdm]
    /\ doctors = [d \in DoctorIds |-> TRUE]
    /\ hist = [a \in AdmIds |-> [ok |-> 0, dec |-> 0]]
    /\ NoLedger
    /\ NoRequest

AdmPatients == {1, 2}

\* Concurrent admissions, discharges and room administration.
InitAdm == EmptyDb

\* A step of a concurrent specification: no request snapshot is kept.
Plain(A) == A /\ UNCHANGED <<pre, rejected>>

NextAdm ==
    \/ \E q \in Conc, p \in AdmPatients, r \in RoomIds, d \in DoctorIds :
          RowsLeft(q) /\ Plain(AdmitStart(q, p, r, d, 1))
    \/ \E q \in Conc : Plain(AdmitCheckRoom(q))
    \/ \E q \in Conc : Plain(AdmitCheckCurrent(q))
    \/ \E q \in Conc : Plain(AdmitIncrement(q))
    \/ \E q \in Conc : Plain(AdmitInsert(q))
    \/ \E q \in Conc : Plain(AdmitCommit(q))
    \/ \E q \in Conc, a \in AdmIds, t \in Times : Plain(DischargeStart(q, a, t))
    \/ \E q \in Conc : Plain(DischargeUpdate(q))
    \/ \E q \in Conc : Plain(DischargeDecrement(q))
    \/ \E q \in Conc : Plain(DischargeCommit(q))
    \/ \E r \in RoomIds, cap \in 1..MaxCap : Plain(CreateRoom(r, cap))
    \/ \E r \in RoomIds, data \in CapacityUpdates : Plain(UpdateRoom(r, data))
    \/ \E r \in RoomIds : Plain(DeleteRoom(r))

SpecAdm == InitAdm /\ [][NextAdm]_vars

\* One request at a time (slot Solo), with room and doctor administration
\* between requests; the tables and the body are kept from where the request
\* began to its response.
Solo == 1

Responds(q) == req[q].pc # "done" /\ req'[q].pc = "done"

Begin(A, body) == A /\ pre' = Snapshot(body) /\ rejected' = rejected
Step(A) == A /\ UNCHANGED <<pre, rejected>>
Between(A) == Quiet(Solo) /\ A /\ pre' = NoSnapshot /\ rejected' = rejected

InitSeq == EmptyDb

NextSeq ==
    \/ \E p \in AdmPatients \cup {MissingId}, r \in RoomIds \cup {MissingId},
          d \in DoctorIds \cup {MissingId}, t \in Times :
          RowsLeft(Solo) /\ Begin(AdmitStart(Solo, p, r, d, t), AdmitBody(p, r, d, t))
    \/ Step(AdmitCheckRoom(Solo))
    \/ Step(AdmitCheckCurrent(Solo))
    \/ Step(AdmitIncrement(Solo))
    \/ Step(AdmitInsert(Solo))
    \/ Step(AdmitCommit(Solo))
    \/ \E a \in AdmIds \cup {MissingId}, t \in Times :
          Begin(DischargeStart(Solo, a, t), DischargeBody(a, t))
    \/ Step(DischargeUpdate(Solo))
    \/ Step(DischargeDecrement(Solo))
    \/ Step(DischargeCommit(Solo))
    \/ \E r \in RoomIds, cap \in 1..MaxCap : Between(CreateRoom(r, cap))
    \/ \E r \in RoomIds, data \in CapacityUpdates \cup ActiveUpdates :
          Between(UpdateRoom(r, data))
    \/ \E r \in RoomIds : Between(DeleteRoom(r))
    \/ \E d \in DoctorIds, act \in BOOLEAN : Between(UpdateDoctor(d, act))

SpecSeq == InitSeq /\ [][NextSeq]_vars

\* One request at a time with valid references only, remembering which
\* <<patient, room>> was answered "room full".
NoteRejected ==
    rejected' = IF Responds(Solo) /\ req'[Solo].msg \in {"room_full", "full_capacity"}
                THEN rejected \cup {<<req'[Solo].p, req'[Solo].r>>}
                ELSE rejected

BeginBed(A, body) == A /\ pre' = Snapshot(body) /\ NoteRejected
StepBed(A) == A /\ pre' = pre /\ NoteRejected

InitBed == EmptyDb

NextBed ==
    \/ \E p \in AdmPatients, r \in RoomIds, d \in DoctorIds :
          RowsLeft(Solo) /\ BeginBed(AdmitStart(Solo, p, r, d, 1), AdmitBody(p, r, d, 1))
    \/ StepBed(AdmitCheckRoom(Solo))
    \/ StepBed(AdmitCheckCurrent(Solo))
    \/ StepBed(AdmitIncrement(Solo))
    \/ StepBed(AdmitInsert(Solo))
    \/ StepBed(AdmitCommit(Solo))
    \/ \E a \in AdmIds, t \in Times :
          BeginBed(DischargeStart(Solo, a, t), DischargeBody(a, t))
    \/ StepBed(DischargeUpdate(Solo))
    \/ StepBed(DischargeDecrement(Solo))
    \/ StepBed(DischargeCommit(Solo))
    \/ \E r \in RoomIds, cap \in 1..MaxCap : Between(CreateRoom(r, cap))
    \/ \E r \in RoomIds, data \in CapacityUpdates : Between(UpdateRoom(r, data))

SpecBed == InitBed /\ [][NextBed]_vars

\* NRace admit requests, one per patient, race for the beds of one room that
\* already holds some resident patients.
RaceRoom == 1

InitRace ==
    \E cap \in 1..MaxCap : \E occ0 \in 0..cap :
        /\ rooms = [r \in RoomIds |->
                      IF r = RaceRoom
                      THEN [exists |-> TRUE, capacity |-> cap, occ |-> occ0,
                            active |-> TRUE]
                      ELSE NoRoom]
        /\ adms = [a \in AdmIds |->
                     IF a <= occ0
                     THEN [st |-> "committed", patient |-> NRace + a,
                           room |-> RaceRoom, doctor |-> 1, admitT |-> 1,
                           dischT |-> NULL]
                     ELSE NoAdm]
        /\ doctors = [d \in DoctorIds |-> TRUE]
        /\ hist = [a \in AdmIds |-> [ok |-> 0, dec |-> 0]]
        /\ NoLedger
        /\ NoRequest

NextRace ==
    \/ \E q \in Racers :
          req[q].pc = "idle" /\ Plain(AdmitStart(q, q, RaceRoom, 1, 1))
    \/ \E q \in Racers : Plain(AdmitCheckRoom(q))
    \/ \E q \in Racers : Plain(AdmitCheckCurrent(q))
    \/ \E q \in Racers : Plain(AdmitIncrement(q))
    \/ \E q \in Racers : Plain(AdmitInsert(q))
    \/ \E q \in Racers : Plain(AdmitCommit(q))

SpecRace == InitRace /\ [][NextRace]_vars

\* The same race, where an admission INSERT may fail.
NextRaceFail ==
    \/ \E q \in Racers :
          req[q].pc = "idle" /\ Plain(AdmitStart(q, q, RaceRoom, 1, 1))
    \/ \E q \in Racers : Plain(AdmitCheckRoom(q))
    \/ \E q \in Racers : Plain(AdmitCheckCurrent(q))
    \/ \E q \in Racers : Plain(AdmitIncrement(q))
    \/ \E q \in Racers : Plain(AdmitInsert(q))
    \/ \E q \in Racers : Plain(AdmitInsertFails(q))
    \/ \E q \in Racers : Plain(AdmitCommit(q))

SpecRaceFail == InitRace /\ [][NextRaceFail]_vars

\* Payments on one bill that generateBill made for a treatment of patient 1.
PayBill == 1
BillPatients == {1, 2}
PayMethods == {"Cash", "Cheque"}

NoWards ==
    /\ rooms = [r \in RoomIds |-> NoRoom]
    /\ adms = [a \in AdmIds |-> NoAdm]
    /\ doctors = [d \in DoctorIds |-> TRUE]
    /\ hist = [a \in AdmIds |-> [ok |-> 0, dec |-> 0]]

InitPay ==
    \E total \in 1..MaxTotal :
        /\ NoWards
        /\ bills = [b \in BillIds |->
                      IF b = PayBill
                      THEN [st |-> "committed", patient |-> 1, adm |-> NULL,
                            total |-> total, paid |-> 0, status |-> "Pending"]
                      ELSE NoBill]
        /\ items = [b \in BillIds |->
                      IF b = PayBill
                      THEN <<[service |-> "X-Ray", treatment |-> 1, qty |-> 1,
                              unit |-> total, total |-> total]>>
                      ELSE <<>>]
        /\ payments = [i \in PayIds |-> NoPayment]
        /\ services = [n \in ServiceNames |->
                         IF n = "X-Ray" THEN [exists |-> TRUE, cost |-> total]
                         ELSE NoService]
        /\ treats = [t \in TreatIds |->
                       IF t = 1 THEN [patient |-> 1, name |-> "X-Ray"] ELSE NoTreat]
        /\ NoRequest

\* Concurrent recordPayment requests.
NextPay ==
    \/ \E q \in Conc, b \in BillIds \cup {NULL}, amt \in 0..MaxAmount,
          method \in PayMethods :
          PayRowsLeft(q) /\ Plain(PayStart(q, b, amt, method))
    \/ \E q \in Conc : Plain(PayInsert(q))
    \/ \E q \in Conc : Plain(PaySum(q))
    \/ \E q \in Conc : Plain(PayUpdate(q))
    \/ \E q \in Conc : Plain(PayDeadlock(q))
    \/ \E q \in Conc : Plain(PayCommit(q))

SpecPay == InitPay /\ [][NextPay]_vars

\* Concurrent recordPayment requests whose statements may fail.
NextPayFail ==
    \/ \E q \in Conc, b \in BillIds, amt \in 1..MaxAmount :
          PayRowsLeft(q) /\ Plain(PayStart(q, b, amt, "Cash"))
    \/ \E q \in Conc : Plain(PayInsert(q))
    \/ \E q \in Conc : Plain(PayInsertFails(q))
    \/ \E q \in Conc : Plain(PaySum(q))
    \/ \E q \in Conc : Plain(PaySumFails(q))
    \/ \E q \in Conc : Plain(PayUpdate(q))
    \/ \E q \in Conc : Plain(PayUpdateFails(q))
    \/ \E q \in Conc : Plain(PayDeadlock(q))
    \/ \E q \in Conc : Plain(PayCommit(q))

SpecPayFail == InitPay /\ [][NextPayFail]_vars

\* recordPayment requests one at a time.
NextPaySeq ==
    \/ \E path \in BillIds, b \in BillIds \cup {NULL}, amt \in 0..MaxAmount,
          method \in PayMethods :
          PayRowsLeft(Solo)
          /\ Begin(PayStart(Solo, b, amt, method), PayRequest(path, b, amt, method))
    \/ Step(PayInsert(Solo))
    \/ Step(PaySum(Solo))
    \/ Step(PayUpdate(Solo))
    \/ Step(PayCommit(Solo))

SpecPaySeq == InitPay /\ [][NextPaySeq]_vars

\* generateBill requests one at a time, over a price list, the treatments of
\* two patients and an admission of patient 1 to room 1.
BilledAdmissions ==
    {NoAdm} \cup
    {[st |-> "committed", patient |-> 1, room |-> 1, doctor |-> 1, admitT |-> 1,
      dischT |-> t] : t \in {NULL} \cup (1..(1 + MaxStay))}

InitBill ==
    /\ adms \in [AdmIds -> BilledAdmissions]
    /\ \A a \in AdmIds : a # 1 => adms[a] = NoAdm
    /\ rooms = [r \in RoomIds |->
                  IF r = 1
                  THEN [exists |-> TRUE, capacity |-> MaxCap,
                        occ |-> IF Active(adms[1]) THEN 1 ELSE 0, active |-> TRUE]
                  ELSE NoRoom]
    /\ doctors = [d \in DoctorIds |-> TRUE]
    /\ hist = [a \in AdmIds |->
                 IF adms[a].st = "committed" /\ adms[a].dischT # NULL
                 THEN [ok |-> 1, dec |-> 1] ELSE [ok |-> 0, dec |-> 0]]
    /\ bills = [b \in BillIds |-> NoBill]
    /\ items = [b \in BillIds |-> <<>>]
    /\ payments = [i \in PayIds |-> NoPayment]
    /\ services \in [ServiceNames ->
                       {NoService} \cup {[exists |-> TRUE, cost |-> c] : c \in 0..MaxCost}]
    /\ treats \in [TreatIds ->
                     {NoTreat} \cup {[patient |-> p, name |-> n] :
                                       p \in BillPatients, n \in TreatNames}]
    /\ NoRequest

NextBill ==
    \/ \E p \in BillPatients \cup {NULL, MissingId}, a \in AdmIds \cup {NULL} :
          BillRowsLeft(Solo) /\ Begin(BillStart(Solo, p, a), BillBody(p, a))
    \/ Step(BillCollect(Solo))
    \/ Step(BillCreate(Solo))
    \/ Step(BillItemCreate(Solo))
    \/ Step(BillCommit(Solo))

SpecBill == InitBill /\ [][NextBill]_vars

\* generateBill requests one at a time whose INSERTs may fail.
NextBillFail ==
    \/ \E p \in BillPatients, a \in AdmIds \cup {NULL} :
          BillRowsLeft(Solo) /\ Begin(BillStart(Solo, p, a), BillBody(p, a))
    \/ Step(BillCollect(Solo))
    \/ Step(BillCreate(Solo))
    \/ Step(BillCreateFails(Solo))
    \/ Step(BillItemCreate(Solo))
    \/ Step(BillItemCreateFails(Solo))
    \/ Step(BillCommit(Solo))

SpecBillFail == InitBill /\ [][NextBillFail]_vars

\* The four transactional handlers running concurrently over one room of
\* capacity 1 and one unpaid bill of patient 1.
TxTotal == 2

InitTx ==
    /\ rooms = [r \in RoomIds |->
                  IF r = 1 THEN [exists |-> TRUE, capacity |-> 1, occ |-> 0,
                                 active |-> TRUE]
                  ELSE NoRoom]
    /\ adms = [a \in AdmIds |-> NoAdm]
    /\ doctors = [d \in DoctorIds |-> TRUE]
    /\ hist = [a \in AdmIds |-> [ok |-> 0, dec |-> 0]]
    /\ bills = [b \in BillIds |->
                  IF b = PayBill
                  THEN [st |-> "committed", patient |-> 1, adm |-> NULL,
                        total |-> TxTotal, paid |-> 0, status |-> "Pending"]
                  ELSE NoBill]
    /\ items = [b \in BillIds |->
                  IF b = PayBill
                  THEN <<[service |-> "X-Ray", treatment |-> 1, qty |-> 1,
                          unit |-> TxTotal, total |-> TxTotal]>>
                  ELSE <<>>]
    /\ payments = [i \in PayIds |-> NoPayment]
    /\ services = [n \in ServiceNames |->
                     IF n = "X-Ray" THEN [exists |-> TRUE, cost |-> TxTotal]
                     ELSE NoService]
    /\ treats = [t \in TreatIds |->
                   IF t = 1 THEN [patient |-> 1, name |-> "X-Ray"] ELSE NoTreat]
    /\ NoRequest

NextTx ==
    \/ \E q \in Conc, p \in AdmPatients :
          RowsLeft(q) /\ Plain(AdmitStart(q, p, 1, 1, 1))
    \/ \E q \in Conc : Plain(AdmitCheckRoom(q))
    \/ \E q \in Conc : Plain(AdmitCheckCurrent(q))
    \/ \E q \in Conc : Plain(AdmitIncrement(q))
    \/ \E q \in Conc : Plain(AdmitInsert(q))
    \/ \E q \in Conc : Plain(AdmitCommit(q))
    \/ \E q \in Conc, a \in AdmIds : Plain(DischargeStart(q, a, MaxTime))
    \/ \E q \in Conc : Plain(DischargeUpdate(q))
    \/ \E q \in Conc : Plain(DischargeDecrement(q))
    \/ \E q \in Conc : Plain(DischargeCommit(q))
    \/ \E q \in Conc, b \in BillIds :
          PayRowsLeft(q) /\ Plain(PayStart(q, b, TxTotal, "Cash"))
    \/ \E q \in Conc : Plain(PayInsert(q))
    \/ \E q \in Conc : Plain(PaySum(q))
    \/ \E q \in Conc : Plain(PayUpdate(q))
    \/ \E q \in Conc : Plain(PayDeadlock(q))
    \/ \E q \in Conc : Plain(PayCommit(q))
    \/ \E q \in Conc, p \in BillPatients \cup {MissingId}, a \in AdmIds \cup {NULL} :
          BillRowsLeft(q) /\ Plain(BillStart(q, p, a))
    \/ \E q \in Conc : Plain(BillCollect(q))
    \/ \E q \in Conc : Plain(BillCreate(q))
    \/ \E q \in Conc : Plain(BillItemCreate(q))
    \/ \E q \in Conc : Plain(BillCommit(q))

SpecTx == InitTx /\ [][NextTx]_vars

\* Admissions of patient 1 to room 1, discharges and bills, one request at a
\* time, with admission and discharge times over more than two days.
StayTimes == 1..(MaxStay + 2)

InitStay ==
    /\ rooms = [r \in RoomIds |->
                  IF r = 1 THEN [exists |-> TRUE, capacity |-> MaxCap, occ |-> 0,
                                 active |-> TRUE]
                  ELSE NoRoom]
    /\ adms = [a \in AdmIds |-> NoAdm]
    /\ doctors = [d \in DoctorIds |-> TRUE]
    /\ hist = [a \in AdmIds |-> [ok |-> 0, dec |-> 0]]
    /\ bills = [b \in BillIds |-> NoBill]
    /\ items = [b \in BillIds |-> <<>>]
    /\ payments = [i \in PayIds |-> NoPayment]
    /\ \E c \in 1..MaxCost :
          services = [n \in ServiceNames |->
                        IF n = RoomServiceName(1) THEN [exists |-> TRUE, cost |-> c]
                        ELSE NoService]
    /\ treats = [t \in TreatIds |-> NoTreat]
    /\ NoRequest

NextStay ==
    \/ \E t \in StayTimes :
          RowsLeft(Solo) /\ Begin(AdmitStart(Solo, 1, 1, 1, t), AdmitBody(1, 1, 1, t))
    \/ Step(AdmitCheckRoom(Solo))
    \/ Step(AdmitCheckCurrent(Solo))
    \/ Step(AdmitIncrement(Solo))
    \/ Step(AdmitInsert(Solo))
    \/ Step(AdmitCommit(Solo))
    \/ \E a \in AdmIds, t \in StayTimes :
          Begin(DischargeStart(Solo, a, t), DischargeBody(a, t))
    \/ Step(DischargeUpdate(Solo))
    \/ Step(DischargeDecrement(Solo))
    \/ Step(DischargeCommit(Solo))
    \/ \E a \in AdmIds :
          BillRowsLeft(Solo) /\ Begin(BillStart(Solo, 1, a), BillBody(1, a))
    \/ Step(BillCollect(Solo))
    \/ Step(BillCreate(Solo))
    \/ Step(BillItemCreate(Solo))
    \/ Step(BillCommit(Solo))

SpecStay == InitStay /\ [][NextStay]_vars

\* Two concurrent generateBill requests over a price list, a treatment of
\* patient 1 named after a priced service, and possibly a discharged admission
\* of patient 1 and a second treatment.
InitBillRace ==
    /\ rooms = [r \in RoomIds |->
                  IF r = 1 THEN [exists |-> TRUE, capacity |-> MaxCap, occ |-> 0,
                                 active |-> TRUE]
                  ELSE NoRoom]
    /\ \E row \in {NoAdm, [st |-> "committed", patient |-> 1, room |-> 1,
                           doctor |-> 1, admitT |-> 1, dischT |-> 1]} :
          /\ adms = [a \in AdmIds |-> IF a = 1 THEN row ELSE NoAdm]
          /\ hist = [a \in AdmIds |->
                       IF a = 1 /\ row # NoAdm THEN [ok |-> 1, dec |-> 1]
                       ELSE [ok |-> 0, dec |-> 0]]
    /\ doctors = [d \in DoctorIds |-> TRUE]
    /\ bills = [b \in BillIds |-> NoBill]
    /\ items = [b \in BillIds |-> <<>>]
    /\ payments = [i \in PayIds |-> NoPayment]
    /\ services \in [ServiceNames -> {[exists |-> TRUE, cost |-> c] : c \in 1..MaxCost}]
    /\ \E other \in {NoTreat, [patient |-> 2, name |-> "X-Ray"],
                     [patient |-> 1, name |-> "Massage"]} :
          treats = [t \in TreatIds |->
                      IF t = 1 THEN [patient |-> 1, name |-> "X-Ray"]
                      ELSE IF t = 2 THEN other ELSE NoTreat]
    /\ NoRequest

NextBillRace ==
    \/ \E q \in Conc, p \in BillPatients, a \in {NULL, 1} :
          BillRowsLeft(q) /\ Plain(BillStart(q, p, a))
    \/ \E q \in Conc : Plain(BillCollect(q))
    \/ \E q \in Conc : Plain(BillCreate(q))
    \/ \E q \in Conc : Plain(BillItemCreate(q))
    \/ \E q \in Conc : Plain(BillCommit(q))

SpecBillRace == InitBillRace /\ [][NextBillRace]_vars

\* The four transactional handlers, one request at a time, where every
\* statement sent to the database may throw.
NextFault ==
    \/ \E p \in AdmPatients :
          RowsLeft(Solo) /\ Begin(AdmitStart(Solo, p, 1, 1, 1), AdmitBody(p, 1, 1, 1))
    \/ Step(AdmitCheckRoom(Solo))
    \/ Step(AdmitCheckCurrent(Solo))
    \/ Step(AdmitIncrement(Solo))
    \/ Step(AdmitInsert(Solo))
    \/ Step(AdmitInsertFails(Solo))
    \/ Step(AdmitCommit(Solo))
    \/ \E a \in AdmIds :
          Begin(DischargeStart(Solo, a, MaxTime), DischargeBody(a, MaxTime))
    \/ Step(DischargeUpdate(Solo))
    \/ Step(DischargeDecrement(Solo))
    \/ Step(DischargeCommit(Solo))
    \/ Step(DischargeRereadFails(Solo))
    \/ \E b \in BillIds, amt \in 1..TxTotal :
          PayRowsLeft(Solo) /\ Begin(PayStart(Solo, b, amt, "Cash"), PayBody(b, amt, "Cash"))
    \/ Step(PayInsert(Solo))
    \/ Step(PayInsertFails(Solo))
    \/ Step(PaySum(Solo))
    \/ Step(PaySumFails(Solo))
    \/ Step(PayUpdate(Solo))
    \/ Step(PayUpdateFails(Solo))
    \/ Step(PayCommit(Solo))
    \/ Step(PayRereadFails(Solo))
    \/ \E a \in AdmIds \cup {NULL} :
          BillRowsLeft(Solo) /\ Begin(BillStart(Solo, 1, a), BillBody(1, a))
    \/ Step(BillCollect(Solo))
    \/ Step(BillCreate(Solo))
    \/ Step(BillCreateFails(Solo))
    \/ Step(BillItemCreate(Solo))
    \/ Step(BillItemCreateFails(Solo))
    \/ Step(BillCommit(Solo))
    \/ Step(BillRereadFails(Solo))

SpecFault == InitTx /\ [][NextFault]_vars

\* Concurrent admissions to room 1 by doctor 1 while the room and the doctor
\* are activated and deactivated.
InitActive ==
    /\ rooms = [r \in RoomIds |->
                  IF r = 1 THEN [exists |-> TRUE, capacity |-> MaxCap, occ |-> 0,
                                 active |-> TRUE]
                  ELSE NoRoom]
    /\ adms = [a \in AdmIds |-> NoAdm]
    /\ doctors = [d \in DoctorIds |-> TRUE]
    /\ hist = [a \in AdmIds |-> [ok |-> 0, dec |-> 0]]
    /\ NoLedger
    /\ NoRequest

NextActive ==
    \/ \E q \in Conc, p \in AdmPatients :
          RowsLeft(q) /\ Plain(AdmitStart(q, p, 1, 1, 1))
    \/ \E q \in Conc : Plain(AdmitCheckRoom(q))
    \/ \E q \in Conc : Plain(AdmitCheckCurrent(q))
    \/ \E q \in Conc : Plain(AdmitIncrement(q))
    \/ \E q \in Conc : Plain(AdmitInsert(q))
    \/ \E q \in Conc : Plain(AdmitCommit(q))
    \/ \E data \in ActiveUpdates : Plain(UpdateRoom(1, data))
    \/ \E act \in BOOLEAN : Plain(UpdateDoctor(1, act))

SpecActive == InitActive /\ [][NextActive]_vars

\* ---------------------------------------------------------------- claims
ResidentBeds ==
    Cardinality({a \in AdmIds : Active(adms[a]) /\ adms[a].patient \in Residents})
Winners == {q \in Racers : req[q].pc = "done" /\ req[q].st = 201}
Losers == {q \in Racers : req[q].pc = "done" /\ req[q].st # 201}
RowsOf(p) == {a \in AdmIds : adms[a].st # "free" /\ adms[a].patient = p}

\* C1: of the admit requests racing for a room, at most as many commit as
\* the room had spare beds when the race began; current_occupancy never
\* exceeds capacity; every loser is answered 409 and has no admission row.
C1_RaceWithinCapacity ==
    /\ rooms[RaceRoom].occ <= rooms[RaceRoom].capacity
    /\ Cardinality(Winners) <= rooms[RaceRoom].capacity - ResidentBeds
    /\ rooms[RaceRoom].occ = ResidentBeds + Cardinality(Winners)
    /\ \A q \in Losers : req[q].st = 409 /\ RowsOf(q) = {}
    /\ \A q \in Winners : Cardinality(RowsOf(q)) = 1

\* Every racer has answered; one passed the availability pre-check and lost
\* the conditional UPDATE, another won.
C1_Witness ==
    /\ \A q \in Racers : req[q].pc = "done"
    /\ Winners # {}
    /\ \E q \in Losers : req[q].msg = "full_capacity"

ActiveOf(p) == {a \in AdmIds : Active(adms[a]) /\ adms[a].patient = p}

\* C2: in every reachable state each patient has at most one committed
\* admission row whose discharge timestamp is NULL, also when two admit
\* requests for the patient both pass the pre-check before either inserts.
C2_OneActiveAdmission == \A p \in PatientIds : Cardinality(ActiveOf(p)) <= 1

\* Two admits of one patient both passed findCurrentByPatientId; one has
\* committed and the other is about to INSERT.
C2_Witness ==
    \E q1, q2 \in Reqs :
        /\ q1 # q2
        /\ req[q1].op = "admit" /\ req[q1].pc = "done" /\ req[q1].st = 201
        /\ req[q2].op = "admit" /\ req[q2].pc = "a_insert"
        /\ req[q2].p = req[q1].p
        /\ ActiveOf(req[q1].p) # {}

DoneDischarges(a) ==
    {q \in Reqs : req[q].op = "discharge" /\ req[q].pc = "done" /\ req[q].a = a}

\* C3: of the discharge requests for one admission exactly one is answered
\* 200: never two, and a request refused because the admission was already
\* discharged implies another one succeeded; the room's occupancy is
\* decremented once per admission, with the successful discharge.
C3_DischargeOnce ==
    \A a \in AdmIds :
        /\ hist[a].ok <= 1
        /\ hist[a].dec = hist[a].ok
        /\ (hist[a].ok = 1) = (adms[a].st = "committed" /\ adms[a].dischT # NULL)
        /\ \A q1, q2 \in DoneDischarges(a) :
              q1 # q2 => ~(req[q1].st = 200 /\ req[q2].st = 200)
        /\ \A q \in DoneDischarges(a) :
              req[q].msg \in {"already_discharged", "gone_during_update"}
                  => hist[a].ok = 1

\* Two requests for one admission raced: one got 200, the other lost in the
\* conditional UPDATE.
C3_Witness ==
    \E a \in AdmIds : \E q1, q2 \in DoneDischarges(a) :
        /\ req[q1].st = 200
        /\ req[q2].msg = "gone_during_update"
        /\ hist[a].dec = 1

\* C4: every room satisfies 0 <= current_occupancy <= capacity in every
\* reachable state, also after a room update that changes the capacity.
C4_OccupancyWithinCapacity ==
    \A r \in RoomIds :
        rooms[r].exists => 0 <= rooms[r].occ /\ rooms[r].occ <= rooms[r].capacity

\* C10: a committed admission row keeps its patient, room and admission
\* time; its discharge timestamp, once non-NULL, is never changed or reset.
C10_DischargedIsTerminal ==
    [][\A a \in AdmIds :
         adms[a].st = "committed" =>
            /\ adms'[a].st = "committed"
            /\ adms'[a].patient = adms[a].patient
            /\ adms'[a].room = adms[a].room
            /\ adms'[a].admitT = adms[a].admitT
            /\ (adms[a].dischT # NULL => adms'[a].dischT = adms[a].dischT)]_vars

\* A discharged patient was admitted again: a second row, the first one
\* still discharged.
C10_Witness ==
    \E a, b \in AdmIds :
        /\ a # b
        /\ adms[a].st = "committed" /\ adms[a].dischT # NULL
        /\ Active(adms[b]) /\ adms[b].patient = adms[a].patient

\* The admit preconditions other than spare capacity, on the tables and the
\* body of snapshot s.
RefsHold(s) ==
    /\ s.in.p \in PatientIds
    /\ s.in.d \in DoctorIds /\ s.doctors[s.in.d]
    /\ s.in.r \in RoomIds /\ s.rooms[s.in.r].exists /\ s.rooms[s.in.r].active
NotAdmitted(s) ==
    \A a \in AdmIds : ~(Active(s.adms[a]) /\ s.adms[a].patient = s.in.p)
HasBed(s) == s.rooms[s.in.r].occ < s.rooms[s.in.r].capacity

NewRows(old, new) == {a \in AdmIds : old[a] # new[a]}

\* C5: an admit request whose other preconditions hold is answered 201 if
\* and only if the room has current_occupancy < capacity; then occupancy
\* rises by one and one admission row is added; to a full room it is answered
\* 409 and the rooms and admissions are as before.
C5_AdmitIffSpareBed ==
    [][(Responds(Solo) /\ req'[Solo].op = "admit" /\ RefsHold(pre') /\ NotAdmitted(pre'))
         => LET r == pre'.in.r IN
            /\ (req'[Solo].st = 201) = HasBed(pre')
            /\ HasBed(pre') =>
                 /\ rooms' = [pre'.rooms EXCEPT ![r].occ = @ + 1]
                 /\ \E a \in AdmIds :
                       /\ NewRows(pre'.adms, adms') = {a}
                       /\ pre'.adms[a].st = "free"
                       /\ Active(adms'[a])
                       /\ adms'[a].patient = pre'.in.p /\ adms'[a].room = r
            /\ ~HasBed(pre') =>
                 /\ req'[Solo].st = 409
                 /\ rooms' = pre'.rooms /\ adms' = pre'.adms]_vars

\* A patient refused at a full room of capacity 1 has been admitted to that
\* room after another patient was discharged from it.
C5_Witness ==
    /\ req[Solo].pc = "done" /\ req[Solo].op = "admit" /\ req[Solo].st = 201
    /\ <<req[Solo].p, req[Solo].r>> \in rejected
    /\ rooms[req[Solo].r].capacity = 1 /\ pre.rooms[req[Solo].r].occ = 0
    /\ \E a \in AdmIds :
          /\ adms[a].st = "committed" /\ adms[a].dischT # NULL
          /\ adms[a].room = req[Solo].r /\ adms[a].patient # req[Solo].p

\* C9: admitPatient answers a violated precondition with that precondition's
\* client error: 404 for a missing patient, doctor or room, 400 for an
\* inactive doctor or room, 409 for a full room or an already admitted
\* patient; it answers 201 only if none is violated; with a client error the
\* rooms and the admission rows are as before the request.
C9_AdmitRejections ==
    [][(Responds(Solo) /\ req'[Solo].op = "admit")
         => LET s == pre'
                st == req'[Solo].st
                msg == req'[Solo].msg
                roomThere == s.in.r \in RoomIds /\ s.rooms[s.in.r].exists
            IN
            /\ st \in {201, 400, 404, 409}
            /\ st = 201 => RefsHold(s) /\ NotAdmitted(s) /\ HasBed(s)
            /\ st = 404 =>
                 \/ msg = "patient_not_found" /\ s.in.p \notin PatientIds
                 \/ msg = "doctor_not_found" /\ s.in.d \notin DoctorIds
                 \/ msg = "room_not_found" /\ ~roomThere
            /\ st = 400 =>
                 \/ msg = "doctor_inactive" /\ s.in.d \in DoctorIds /\ ~s.doctors[s.in.d]
                 \/ msg = "room_inactive" /\ roomThere /\ ~s.rooms[s.in.r].active
            /\ st = 409 =>
                 \/ msg \in {"room_full", "full_capacity"} /\ roomThere /\ ~HasBed(s)
                 \/ msg \in {"already_admitted", "dup_active"} /\ ~NotAdmitted(s)
            /\ st # 201 => rooms' = s.rooms /\ adms' = s.adms /\ doctors' = s.doctors]_vars

\* An admit to an inactive room was answered 400 while the room held a
\* patient and had a spare bed.
C9_Witness ==
    /\ req[Solo].pc = "done" /\ req[Solo].op = "admit"
    /\ req[Solo].st = 400 /\ req[Solo].msg = "room_inactive"
    /\ rooms[req[Solo].r].occ = 1 /\ rooms[req[Solo].r].capacity = 2
    /\ rooms = pre.rooms /\ adms = pre.adms

PaidInto(b) == {i \in PayIds : payments[i].st = "committed" /\ payments[i].bill = b}
RecordedSum(b) == SumAmounts(payments, PaidInto(b))

\* C6: after any sequence of successful recordPayment calls on a bill, its
\* amount_paid is the sum of the recorded amounts, its payment_status is Paid
\* exactly when that sum is >= total_amount and Partially Paid exactly when
\* the sum is > 0 and < total_amount.
C6_StatusFollowsSum ==
    \A b \in BillIds :
        (bills[b].st = "committed" /\ PaidInto(b) # {}) =>
            /\ bills[b].paid = RecordedSum(b)
            /\ (bills[b].status = "Paid") = (RecordedSum(b) >= bills[b].total)
            /\ (bills[b].status = "Partially Paid") =
                  (RecordedSum(b) > 0 /\ RecordedSum(b) < bills[b].total)

\* The scenario in hundreds: total 5, a payment of 2, a payment of 3, Paid
\* with 5 paid, and a further attempt answered 400.
C6_Witness ==
    /\ bills[PayBill].total = 5
    /\ payments[1] = [st |-> "committed", bill |-> PayBill, amount |-> 2]
    /\ payments[2] = [st |-> "committed", bill |-> PayBill, amount |-> 3]
    /\ payments[3].st = "free"
    /\ bills[PayBill].status = "Paid" /\ bills[PayBill].paid = 5
    /\ req[Solo].pc = "done" /\ req[Solo].op = "pay"
    /\ req[Solo].st = 400 /\ req[Solo].msg = "already_settled"

\* C7: once a bill's committed payment_status is Paid or Cancelled, no
\* recordPayment that commits afterwards adds a payment row to the bill or
\* changes its amount_paid, also when two requests for the unsettled bill
\* run concurrently and the first to commit settles it.
C7_SettledBillTakesNoPayment ==
    [][\A b \in BillIds :
         (bills[b].st = "committed" /\ bills[b].status \in Settled) =>
            /\ {i \in PayIds : payments'[i].st = "committed" /\ payments'[i].bill = b}
                  = PaidInto(b)
            /\ bills'[b].paid = bills[b].paid]_vars

\* The references of a generateBill request resolve on snapshot s.
BillRefsHold(s) ==
    /\ s.in.p \in PatientIds
    /\ s.in.a # NULL => /\ s.in.a \in AdmIds
                        /\ s.adms[s.in.a].st = "committed"
                        /\ s.adms[s.in.a].patient = s.in.p

HasPricedService(n) == n \in ServiceNames /\ services[n].exists /\ services[n].cost > 0

\* A billable item resolves: a discharged admission with a priced room-type
\* service, or a treatment of the patient with a priced service of its name.
RoomChargeResolves(s) ==
    /\ s.in.a # NULL
    /\ s.adms[s.in.a].dischT # NULL
    /\ HasPricedService(RoomServiceName(s.adms[s.in.a].room))
TreatmentResolves(s) ==
    \E t \in TreatIds : treats[t].patient = s.in.p /\ HasPricedService(treats[t].name)

\* C8: a generateBill request whose references resolve and for which no
\* billable item resolves is answered 400 "no billable items" and leaves the
\* Bills and Bill_Items tables as they were; that answer is given to no
\* request with a billable item.
C8_NothingToBill ==
    [][(Responds(Solo) /\ req'[Solo].op = "bill" /\ BillRefsHold(pre'))
         => LET nothing == ~RoomChargeResolves(pre') /\ ~TreatmentResolves(pre') IN
            /\ nothing => /\ req'[Solo].st = 400 /\ req'[Solo].msg = "no_items"
                          /\ bills' = pre'.bills /\ items' = pre'.items
            /\ req'[Solo].msg = "no_items" => nothing]_vars

\* A request for an admission not yet discharged of a patient whose only
\* treatment has a service of cost 0 was answered 400; no bill row exists.
C8_Witness ==
    /\ req[Solo].pc = "done" /\ req[Solo].op = "bill"
    /\ req[Solo].st = 400 /\ req[Solo].msg = "no_items"
    /\ req[Solo].a # NULL /\ Active(adms[req[Solo].a])
    /\ \E t \in TreatIds :
          /\ treats[t].patient = req[Solo].p
          /\ FindByName(treats[t].name).exists /\ FindByName(treats[t].name).cost = 0
    /\ \A b \in BillIds : bills[b].st = "free" /\ items[b] = <<>>

\* The request of snapshot s is well formed but for its bill_id, and the bill
\* b exists and is not settled.
PayableOn(s, b) ==
    /\ b \in BillIds /\ s.bills[b].st = "committed"
    /\ s.bills[b].status \notin Settled
    /\ s.in.amt > 0 /\ s.in.method \in AllowedMethods

\* C11: a record-payment request that names an existing unsettled bill by
\* the path id only, with a positive amount and an allowed payment_method in
\* the body and no bill_id there, is answered 201.
C11_PathIdSuffices ==
    [][(Responds(Solo) /\ req'[Solo].op = "pay"
        /\ pre'.in.b = NULL /\ PayableOn(pre', pre'.in.path))
         => req'[Solo].st = 201]_vars

ClientErrors == {400, 404, 409}

\* The client-error responses that a handler gives after beginTransaction.
AfterBegin(r) ==
    \/ r.op = "admit" /\ r.msg \in {"full_capacity", "dup_active"}
    \/ r.op = "discharge" /\ r.msg = "gone_during_update"
    \/ r.op = "pay" /\ r.msg \in {"bill_not_found", "already_settled"}
    \/ r.op = "bill" /\ r.msg \in {"patient_not_found", "admission_not_found",
                                  "admission_of_other_patient", "no_items"}

\* C13: a request of admitPatient, dischargePatient, generateBill or
\* recordPayment answered with a client error after beginTransaction has
\* rolled its transaction back and released its connection; one answered
\* before that never had either; no client error leaves a transaction open
\* or a connection held.
C13_ClientErrorsCloseTransaction ==
    \A q \in Reqs :
        (req[q].pc = "done" /\ req[q].st \in ClientErrors) =>
            IF AfterBegin(req[q])
            THEN req[q].tx = "rolled_back" /\ req[q].conn = "released"
            ELSE req[q].tx = "none" /\ req[q].conn = "none"

\* A discharge that lost the conditional UPDATE and a payment on a settled
\* bill have both been answered.
C13_Witness ==
    \E q1, q2 \in Reqs :
        /\ req[q1].pc = "done" /\ req[q1].op = "discharge"
        /\ req[q1].st = 404 /\ req[q1].msg = "gone_during_update"
        /\ req[q2].pc = "done" /\ req[q2].op = "pay"
        /\ req[q2].st = 400 /\ req[q2].msg = "already_settled"
        /\ req[q1].tx = "rolled_back" /\ req[q2].tx = "rolled_back"

ActiveIn(r) == {a \in AdmIds : Active(adms[a]) /\ adms[a].room = r}

\* C14: in every committed state reached through admitPatient a room's
\* occupancy counts exactly its committed admission rows: a request answered
\* 201 has its one row and its increment, a request that failed (increment
\* refused, INSERT failed) has neither a row nor an increment.
C14_AdmissionAllOrNothing ==
    /\ \A r \in RoomIds :
          rooms[r].exists => rooms[r].occ = Cardinality(ActiveIn(r))
    /\ \A q \in Racers :
          req[q].pc = "done" =>
             IF req[q].st = 201
             THEN \E a \in AdmIds : RowsOf(q) = {a} /\ Active(adms[a])
             ELSE RowsOf(q) = {}

\* One racer's INSERT failed after its increment, another racer was admitted.
C14_Witness ==
    \E q1, q2 \in Racers :
        /\ req[q1].pc = "done" /\ req[q1].st = 500 /\ req[q1].msg = "db_error"
        /\ req[q1].tx = "rolled_back"
        /\ req[q2].pc = "done" /\ req[q2].st = 201
        /\ rooms[RaceRoom].occ = ResidentBeds + 1

\* C15: a payment row becomes committed only together with the rewrite of its
\* bill's amount_paid and payment_status; a recordPayment that fails at the
\* insert, at the SUM or at the bill update leaves no payment row of its own
\* and changes neither the committed payments nor the bill.
C15_PaymentAtomic ==
    [][/\ \A i \in PayIds :
             (payments[i].st # "committed" /\ payments'[i].st = "committed") =>
                LET b == payments'[i].bill IN
                /\ bills'[b].paid >= payments'[i].amount
                /\ bills'[b].status # "Pending"
                /\ bills'[b].status = PaymentStatus(bills'[b].paid, bills'[b].total)
                /\ \E q \in Reqs : Responds(q) /\ req'[q].st = 201 /\ req[q].pay = i
       /\ \A q \in Reqs :
             (Responds(q) /\ req'[q].op = "pay" /\ req'[q].st # 201) =>
                /\ bills' = bills
                /\ \A i \in PayIds :
                      IF i = req[q].pay THEN payments'[i].st = "free"
                      ELSE payments'[i] = payments[i]]_vars

\* A request whose bill update failed after its payment was inserted has been
\* answered 500, rolled back; the one committed payment is another request's.
C15_Witness ==
    \E q1, q2 \in Reqs :
        /\ req[q1].pc = "done" /\ req[q1].op = "pay"
        /\ req[q1].st = 500 /\ req[q1].msg = "update_failed"
        /\ req[q1].tx = "rolled_back"
        /\ req[q2].pc = "done" /\ req[q2].op = "pay" /\ req[q2].st = 201
        /\ Cardinality(PaidInto(PayBill)) = 1
        /\ \A i \in PayIds : payments[i].st # "pending"

\* C16: a discharge whose conditional UPDATE matches no row, because a
\* concurrent discharge closed the admission after the pre-checks, is
\* answered with a conflict-class client error and not with 404; it is rolled
\* back and the room's occupancy is not decremented.
C16_LostDischargeIsConflict ==
    [][\A q \in Reqs :
         (req[q].op = "discharge" /\ req[q].pc = "d_update" /\ Responds(q)) =>
            /\ req'[q].st \in {400, 409}
            /\ req'[q].tx = "rolled_back"
            /\ rooms' = rooms /\ hist' = hist]_vars

\* C17: in every committed state each bill's amount_paid equals the sum of
\* the amounts of its committed payment rows (0 when there are none), also
\* after two recordPayment requests for the bill ran concurrently.
C17_AmountPaidIsSum ==
    \A b \in BillIds : bills[b].st = "committed" => bills[b].paid = RecordedSum(b)

\* C18: a bill row is committed only together with all the line items
\* collected for it, and it has at least one; a generateBill whose bill or
\* item INSERT fails leaves the Bills and Bill_Items tables as they were, so
\* no bill exists with a partial or empty item set and no item without a bill.
C18_BillAllOrNothing ==
    [][/\ \A b \in BillIds :
             /\ (bills[b].st # "committed" /\ bills'[b].st = "committed") =>
                   /\ items'[b] = BillItemsData(pre'.in.p, req[Solo].adm)
                   /\ items'[b] # <<>>
                   /\ req'[Solo].st = 201
             /\ bills'[b].st = "free" => items'[b] = <<>>
       /\ (Responds(Solo) /\ req'[Solo].op = "bill" /\ req'[Solo].st # 201) =>
             bills' = pre'.bills /\ items' = pre'.items]_vars

\* A request with a room charge and a treatment to bill failed at an item
\* INSERT: answered 500, rolled back, no bill row and no item left.
C18_Witness ==
    /\ req[Solo].pc = "done" /\ req[Solo].op = "bill"
    /\ req[Solo].st = 500 /\ req[Solo].msg = "item_failed"
    /\ req[Solo].tx = "rolled_back"
    /\ RoomChargeResolves(pre) /\ TreatmentResolves(pre)
    /\ \A b \in BillIds : bills[b].st = "free" /\ items[b] = <<>>

\* C19: in every reachable state each bill's total_amount equals the sum of
\* item_total_price over its items, and each item's item_total_price equals
\* quantity times unit_price (stated over the committed bills).
C19_TotalIsSumOfItems ==
    \A b \in BillIds :
        bills[b].st = "committed" =>
            /\ bills[b].total = SumTotals(items[b])
            /\ \A i \in 1..Len(items[b]) :
                   items[b][i].total = items[b][i].qty * items[b][i].unit

\* The second half alone: every stored item's total is quantity times unit price.
ItemTotalsHold ==
    \A b \in BillIds : \A i \in 1..Len(items[b]) :
        items[b][i].total = items[b][i].qty * items[b][i].unit

\* A bill of treatments only, one of them priced, has the total of its items.
TreatmentOnlyTotalHolds ==
    \A b \in BillIds :
        (bills[b].st = "committed" /\ Len(items[b]) = 1) =>
            bills[b].total = SumTotals(items[b])

\* A bill item that is a room charge: the one item pushed without a treatment_id.
HasRoomCharge(b) == \E i \in 1..Len(items[b]) : items[b][i].treatment = NULL

ActiveAdmissionBilled ==
    \E b \in BillIds :
        /\ bills[b].st = "committed" /\ ~HasRoomCharge(b)
        /\ bills[b].adm # NULL /\ adms[bills[b].adm].dischT = NULL

\* The room-charge items of bill b.
RoomCharges(b) == {i \in 1..Len(items[b]) : items[b][i].treatment = NULL}

\* The length of the stay a bill refers to.
StayOf(b) == adms[bills[b].adm].dischT - adms[bills[b].adm].admitT

\* C21: the quantity of every room-charge item is max(1, ceil(stay / one day)):
\* at least 1, the least number of whole days that covers the stay (a
\* zero-length stay bills one day, exactly k days bill k, any fraction over k
\* days bills k + 1), for admissions made by admit and closed by discharge.
C21_DaysStayed ==
    \A b \in BillIds : \A i \in RoomCharges(b) :
        LET qty == items[b][i].qty IN
        /\ qty >= 1
        /\ qty * DayLen >= StayOf(b)
        /\ qty > 1 => (qty - 1) * DayLen < StayOf(b)

\* Two committed bills: one for a zero-length stay, billed one day, and one
\* for a stay of a day and a fraction, billed two days.
C21_Witness ==
    \E b, c \in BillIds :
        /\ bills[b].st = "committed" /\ bills[c].st = "committed"
        /\ \E i \in RoomCharges(b) : StayOf(b) = 0 /\ items[b][i].qty = 1
        /\ \E i \in RoomCharges(c) : StayOf(c) = DayLen + 1 /\ items[c][i].qty = 2

\* A stay of exactly two days is billed two days.
WholeDaysBilled ==
    \E b \in BillIds :
        /\ bills[b].st = "committed"
        /\ \E i \in RoomCharges(b) : StayOf(b) = 2 * DayLen /\ items[b][i].qty = 2

\* The items of bill b that bill treatment t.
ItemsFor(b, t) == {i \in 1..Len(items[b]) : items[b][i].treatment = t}

\* Treatment t is a record of patient p named after a service with cost > 0.
BillableTreatment(p, t) == treats[t].patient = p /\ HasPricedService(treats[t].name)

\* C22: the treatment items of a generated bill are exactly one item of
\* quantity 1 per treatment record of the patient whose name is that of a
\* service with cost > 0, priced at that cost; a treatment without such a
\* service has no item.
C22_TreatmentItems ==
    \A b \in BillIds : bills[b].st = "committed" =>
        \A t \in TreatIds :
            IF BillableTreatment(bills[b].patient, t)
            THEN /\ Cardinality(ItemsFor(b, t)) = 1
                 /\ \A i \in ItemsFor(b, t) :
                       /\ items[b][i].qty = 1
                       /\ items[b][i].service = treats[t].name
                       /\ items[b][i].unit = services[treats[t].name].cost
            ELSE ItemsFor(b, t) = {}

\* A bill was generated (201) for a patient with one treatment that is priced
\* and billed and another that has no priced service and was skipped.
C22_Witness ==
    /\ req[Solo].pc = "done" /\ req[Solo].op = "bill" /\ req[Solo].st = 201
    /\ bills[req[Solo].b].st = "committed"
    /\ \E t, u \in TreatIds :
          /\ BillableTreatment(req[Solo].p, t) /\ ItemsFor(req[Solo].b, t) # {}
          /\ treats[u].patient = req[Solo].p /\ ~HasPricedService(treats[u].name)

\* Slot q's generateBill ended with 201 and a committed bill that has an item
\* for treatment t.
Billed(q, t) ==
    /\ req[q].pc = "done" /\ req[q].op = "bill" /\ req[q].st = 201
    /\ bills[req[q].b].st = "committed"
    /\ ItemsFor(req[q].b, t) # {}

BothBillingAtOnce ==
    \E t \in TreatIds :
        \A q \in Conc :
            /\ req[q].op = "bill" /\ req[q].pc = "g_commit" /\ req[q].tx = "open"
            /\ ItemsFor(req[q].b, t) # {}

\* Every bill that names an admission names an existing one of its own patient.
BillAdmissionsHold(bs) ==
    \A b \in BillIds :
        (bs[b].st # "free" /\ bs[b].adm # NULL) =>
            /\ adms[bs[b].adm].st = "committed"
            /\ adms[bs[b].adm].patient = bs[b].patient

\* C24: in every reachable state a bill with an admission reference refers to
\* an existing admission of the bill's patient; generateBill for an existing
\* patient answers 404 to an admission_id that does not exist and 400 to the
\* admission of another patient, and creates no bill in either case.
C24_BillAdmissionReference ==
    [][/\ BillAdmissionsHold(bills')
       /\ (/\ Responds(Solo) /\ req'[Solo].op = "bill"
           /\ pre'.in.p \in PatientIds /\ pre'.in.a # NULL) =>
             LET row == pre'.adms[pre'.in.a] IN
             /\ row.st # "committed" =>
                   /\ req'[Solo].st = 404
                   /\ bills' = pre'.bills /\ items' = pre'.items
             /\ (row.st = "committed" /\ row.patient # pre'.in.p) =>
                   /\ req'[Solo].st = 400
                   /\ bills' = pre'.bills /\ items' = pre'.items]_vars

\* A request of patient 2, who has a priced treatment, for the discharged
\* admission of patient 1 was answered 400 and no bill exists.
C24_Witness ==
    /\ req[Solo].pc = "done" /\ req[Solo].op = "bill"
    /\ req[Solo].st = 400 /\ req[Solo].msg = "admission_of_other_patient"
    /\ adms[req[Solo].a].st = "committed" /\ adms[req[Solo].a].dischT # NULL
    /\ adms[req[Solo].a].patient # req[Solo].p
    /\ TreatmentResolves(pre)
    /\ \A b \in BillIds : bills[b].st = "free"

\* A request naming an admission_id that does not exist was answered 404.
MissingAdmissionRefused ==
    /\ req[Solo].pc = "done" /\ req[Solo].op = "bill"
    /\ req[Solo].st = 404 /\ req[Solo].msg = "admission_not_found"
    /\ TreatmentResolves(pre)
    /\ \A b \in BillIds : bills[b].st = "free"

\* No admission is discharged before it was admitted.
DischargeAfterAdmission(rows) ==
    \A a \in AdmIds :
        (rows[a].st = "committed" /\ rows[a].dischT # NULL) =>
            rows[a].dischT >= rows[a].admitT

\* The discharge request of snapshot s misses a precondition: no such
\* admission, already discharged, or a time before the admission.
DischargeRefused(s) ==
    \/ s.in.a \notin AdmIds
    \/ s.adms[s.in.a].st # "committed"
    \/ s.adms[s.in.a].dischT # NULL
    \/ s.in.t < s.adms[s.in.a].admitT

\* C25: in every reachable state a discharged admission has a discharge time
\* not before its admission time; a dischargePatient request with an earlier
\* time, for a missing admission or for a discharged one is answered with a
\* client error and leaves the admissions and the rooms' occupancy unchanged.
C25_DischargePreconditions ==
    [][/\ DischargeAfterAdmission(adms')
       /\ (/\ Responds(Solo) /\ req'[Solo].op = "discharge"
           /\ DischargeRefused(pre')) =>
             /\ req'[Solo].st \in 400..499
             /\ adms' = pre'.adms
             /\ rooms' = pre'.rooms]_vars

\* A discharge of an active admission at a time before its admission was
\* answered 400; the admission is still active and its bed still taken.
C25_Witness ==
    /\ req[Solo].pc = "done" /\ req[Solo].op = "discharge"
    /\ req[Solo].st = 400 /\ req[Solo].msg = "before_admission"
    /\ Active(adms[req[Solo].a])
    /\ pre.in.t < adms[req[Solo].a].admitT
    /\ rooms[adms[req[Solo].a].room].occ = 1
    /\ adms = pre.adms /\ rooms = pre.rooms

\* The admission rows of room r with no discharge time.
ActiveRowsOf(r) ==
    {a \in AdmIds : adms[a].st = "committed" /\ adms[a].room = r /\ adms[a].dischT = NULL}

\* C26: in every committed state each room's current_occupancy is the number
\* of admission rows of the room whose discharge time is null, after any
\* interleaving of admit and discharge requests.
C26_OccupancyIsActiveCount ==
    \A r \in RoomIds : rooms[r].occ = Cardinality(ActiveRowsOf(r))

\* A discharge has committed and given its bed back while another patient
\* is in the same room.
C26_Witness ==
    \E r \in RoomIds :
        /\ rooms[r].exists /\ rooms[r].occ = 1 /\ Cardinality(ActiveRowsOf(r)) = 1
        /\ \E a \in AdmIds :
              /\ adms[a].st = "committed" /\ adms[a].room = r /\ adms[a].dischT # NULL
              /\ hist[a].ok = 1 /\ hist[a].dec = 1
        /\ \E q \in Conc : req[q].pc = "done" /\ req[q].op = "discharge" /\ req[q].st = 200

\* C27: a bill's committed payment_status only moves forward along Pending,
\* Partially Paid, Paid: a bill committed as Paid stays Paid, and a bill with
\* a committed payment is never Pending, also when a recordPayment that read
\* the bill before a concurrent payment settled it writes its status afterwards.
C27_StatusOnlyMovesForward ==
    [][\A b \in BillIds :
          /\ (bills[b].st = "committed" /\ bills[b].status = "Paid") =>
                bills'[b].status = "Paid"
          /\ (bills[b].st = "committed" /\ bills[b].status = "Partially Paid") =>
                bills'[b].status \in {"Partially Paid", "Paid"}
          /\ PaidInto(b)' # {} => bills'[b].status # "Pending"]_vars

\* The second half alone: a bill with a committed payment is never Pending.
PaidBillNotPending ==
    \A b \in BillIds : PaidInto(b) # {} => bills[b].status # "Pending"

\* C28: whenever generateBill or recordPayment answers 500 the request has
\* persisted nothing: no bill, bill item or payment row of the request is
\* committed and no bill amount or status changed, also when the read that
\* follows connection.commit() fails.
C28_ServerErrorPersistsNothing ==
    [][(/\ Responds(Solo) /\ req'[Solo].op \in {"bill", "pay"}
        /\ req'[Solo].st = 500) =>
          /\ bills' = pre'.bills
          /\ items' = pre'.items
          /\ payments' = pre'.payments]_vars

\* The same, for the failures of the statements inside the transaction only.
FailedTransactionPersistsNothing ==
    [][(/\ Responds(Solo) /\ req'[Solo].op \in {"bill", "pay"}
        /\ req'[Solo].st = 500 /\ req'[Solo].msg # "reread_failed") =>
          /\ bills' = pre'.bills
          /\ items' = pre'.items
          /\ payments' = pre'.payments]_vars

\* The handlers that take a connection from the pool.
Transactional == {"admit", "discharge", "bill", "pay"}

\* C29: every connection acquired by admitPatient, dischargePatient,
\* generateBill or recordPayment is released exactly once on every path, and
\* rollback or commit is never called on it after the release.
C29_ReleasedExactlyOnce ==
    \A q \in Reqs :
        (req[q].pc = "done" /\ req[q].op \in Transactional /\ req[q].conn # "none") =>
            req[q].conn = "released"

\* The same, for the two handlers that release in a finally block.
AdmissionsReleaseOnce ==
    \A q \in Reqs :
        (/\ req[q].pc = "done" /\ req[q].op \in {"admit", "discharge"}
         /\ req[q].conn # "none") =>
            req[q].conn = "released"

\* The admissions that the step commits.
Committing(a) == adms[a].st # "committed" /\ adms'[a].st = "committed"

\* C30: no admission is committed into a room that is inactive, or with an
\* admitting doctor who is inactive, at the moment it commits, also when an
\* update deactivates them between admitPatient's pre-checks and its
\* transaction.
C30_NoAdmissionWhenInactive ==
    [][\A a \in AdmIds :
          Committing(a) =>
              /\ rooms'[adms'[a].room].active
              /\ doctors'[adms'[a].doctor]]_vars

\* The room half and the doctor half, each alone.
NoAdmissionToInactiveRoom ==
    [][\A a \in AdmIds : Committing(a) => rooms'[adms'[a].room].active]_vars
NoAdmissionByInactiveDoctor ==
    [][\A a \in AdmIds : Committing(a) => doctors'[adms'[a].doctor]]_vars

====
